---- MODULE Spec2Model ----
(***************************************************************************)
(* The dora daemon's event loop (binaries/daemon/src/lib.rs) as a state    *)
(* machine: one step per event pulled by run_inner, each step running the  *)
(* whole handler.  The coordinator's spawn loop                            *)
(* (binaries/coordinator/src/run/mod.rs) and the ready barrier the daemon  *)
(* waits for are modelled beside it.                                       *)
(***************************************************************************)
EXTENDS Integers, Sequences, FiniteSets, TLC

VARIABLES
  status,      \* run_inner's loop: "running", "exit" (break) or "error" (`?`)
  failure,     \* the error run_inner returned, by its message ("" while there is none)
  running,     \* Daemon.running : DataflowId -> RunningDataflow
  emitted,     \* what the last handled event sent, in order (see Watched)
  io_failed,   \* a coordinator send/receive failed while handling the last event
  spawned,     \* node processes started by spawn::spawn_node
  reaped,      \* node processes whose SpawnedNodeResult has been handled
  spawn_ok,    \* dataflow ids whose Spawn was answered SpawnResult(Ok)
  spawn_seen,  \* dataflow ids a Spawn has inserted into `running`
  coord,       \* the coordinator's ready barrier for the dataflow
  next_token,  \* next fresh DropToken
  hist,        \* what has been emitted so far (observation only)
  exit_when_done,   \* Daemon.exit_when_done : Option<BTreeSet<(Uuid, NodeId)>>
  dataflow_errors,  \* Daemon.dataflow_errors : Vec<(Uuid, NodeId, Report)>
  submission   \* the coordinator's spawn_dataflow call for a submitted dataflow

vars == <<status, failure, running, emitted, io_failed, spawned, reaped, spawn_ok,
          spawn_seen, coord, next_token, hist, exit_when_done, dataflow_errors,
          submission>>

(***************************************************************************)
(* Bounds of the model.                                                    *)
(***************************************************************************)
MaxTokens == 1         \* drop tokens published
MaxTimerHandles == 2   \* timer emitters launched per dataflow

(***************************************************************************)
(* Identifiers.                                                            *)
(***************************************************************************)
machine_id == "m1"
NodeOrder == <<"a", "b", "c", "e">>
DataOrder == <<"in1", "in2", "tick", "x", "y", "z">>
Nodes == {NodeOrder[k] : k \in 1..Len(NodeOrder)}
DataIds == {"x", "y", "z"}
LocalNodes == {"a", "b"}
DataflowIds == {"d1", "d2"}
SpawnIds == {"d1"}
Tokens == 1..MaxTokens
NoToken == 0

EmptyFn == [k \in {} |-> {}]
Get(f, k, d) == IF k \in DOMAIN f THEN f[k] ELSE d
Put(f, k, v) == [x \in (DOMAIN f) \cup {k} |-> IF x = k THEN v ELSE f[x]]
Del(f, k) == [x \in (DOMAIN f) \ {k} |-> f[x]]
Range(f) == {f[x] : x \in DOMAIN f}

Rank(seq, x) == CHOOSE k \in 1..Len(seq) : seq[k] = x
\* Ord order of a pair of strings, as BTreeSet<(NodeId, DataId)> iterates
PairLeq(p, q) ==
  \/ Rank(NodeOrder, p[1]) < Rank(NodeOrder, q[1])
  \/ p[1] = q[1] /\ Rank(DataOrder, p[2]) <= Rank(DataOrder, q[2])
RECURSIVE SortPairs(_)
SortPairs(S) ==
  IF S = {} THEN <<>>
  ELSE LET m == CHOOSE x \in S : \A y \in S : PairLeq(x, y)
       IN <<m>> \o SortPairs(S \ {m})
RECURSIVE SortNodes(_)
SortNodes(S) ==
  IF S = {} THEN <<>>
  ELSE LET m == CHOOSE x \in S : \A y \in S : Rank(NodeOrder, x) <= Rank(NodeOrder, y)
       IN <<m>> \o SortNodes(S \ {m})

(***************************************************************************)
(* Descriptors (the `nodes` of a Spawn): each node with its deploy machine *)
(* and its inputs, an input mapped to a User output or to a Timer.         *)
(***************************************************************************)
User(s, o) == [kind |-> "User", source |-> s, output |-> o, interval |-> 0]
Timer(iv) == [kind |-> "Timer", source |-> "", output |-> "", interval |-> iv]
Node(id, machine, inputs) == [id |-> id, machine |-> machine, inputs |-> inputs]

\* one machine: a feeds both inputs of b
DescLocal ==
  << Node("a", "m1", EmptyFn),
     Node("b", "m1", [i \in {"in1", "in2"} |->
                        IF i = "in1" THEN User("a", "x") ELSE User("a", "y")]) >>
\* three machines: a (local) feeds b (local) and c (on m2) through two outputs,
\* c feeds b and e (on m3), b also has a timer
DescRemote ==
  << Node("a", "m1", EmptyFn),
     Node("b", "m1", [i \in {"in1", "in2", "tick"} |->
                        IF i = "in1" THEN User("a", "x")
                        ELSE IF i = "in2" THEN User("c", "z") ELSE Timer(1)]),
     Node("c", "m2", [i \in {"in1", "in2"} |->
                        IF i = "in1" THEN User("a", "x") ELSE User("a", "y")]),
     Node("e", "m3", [i \in {"in1"} |-> User("c", "z")]) >>
\* one machine: the output of a fans out to b and c
DescFan ==
  << Node("a", "m1", EmptyFn),
     Node("b", "m1", [i \in {"in1"} |-> User("a", "x")]),
     Node("c", "m1", [i \in {"in1"} |-> User("a", "x")]) >>
\* one machine: a feeds b, which also has a timer
DescTimer ==
  << Node("a", "m1", EmptyFn),
     Node("b", "m1", [i \in {"in1", "tick"} |->
                        IF i = "in1" THEN User("a", "x") ELSE Timer(1)]) >>
\* one machine: the output x of a feeds both inputs of b
DescTwin ==
  << Node("a", "m1", EmptyFn),
     Node("b", "m1", [i \in {"in1", "in2"} |-> User("a", "x")]) >>
Descriptors == {DescLocal, DescRemote}
Machines(desc) == {desc[k].machine : k \in 1..Len(desc)}

(***************************************************************************)
(* Emitted events.  ch: "event" (a node's subscriber channel), "drop" (a   *)
(* node's drop channel), "reply" (a node's request), "coord" (a frame to   *)
(* the coordinator), "creply" (the reply to a coordinator push), "warn"    *)
(* (a tracing::warn! of a handler that goes on), "ack" (a frame the daemon *)
(* read from its request connection with tcp_receive), "log" (the          *)
(* tracing line of a node's exit).                                         *)
(***************************************************************************)
Ev(ch, to, kind, id, tok) ==
  [ch |-> ch, to |-> to, kind |-> kind, id |-> id, tok |-> tok, data |-> {}]
\* a frame to the coordinator with a payload (target machines, closed inputs)
Frame(kind, id, data) ==
  [ch |-> "coord", to |-> "", kind |-> kind, id |-> id, tok |-> NoToken, data |-> data]

\* an UnboundedSender<NodeEvent>, by what has been pushed into it: the ids of
\* its InputClosed events, whether it holds an AllInputsClosed and a Stop, and
\* whether an event was pushed after a Stop, an InputClosed twice for one id,
\* an AllInputsClosed twice, an InputClosed after an AllInputsClosed
NewChannel ==
  [closed |-> {}, all_closed |-> FALSE, stop |-> FALSE, after_stop |-> FALSE,
   ic_twice |-> FALSE, aic_twice |-> FALSE, ic_after_aic |-> FALSE]
MaxCount == 2
Inc(k) == IF k < MaxCount THEN k + 1 ELSE MaxCount
ChannelPush(c, kind, id) ==
  [c EXCEPT !.closed = IF kind = "InputClosed" THEN @ \cup {id} ELSE @,
            !.all_closed = @ \/ kind = "AllInputsClosed",
            !.stop = @ \/ kind = "Stop",
            !.after_stop = @ \/ c.stop,
            !.ic_twice = @ \/ (kind = "InputClosed" /\ id \in c.closed),
            !.aic_twice = @ \/ (kind = "AllInputsClosed" /\ c.all_closed),
            !.ic_after_aic = @ \/ (kind = "InputClosed" /\ c.all_closed)]

\* the messages of the errors that reach run_inner
NoDataflow == "no running dataflow"
TcpFailed == "tcp"
ShmemFailed == "failed to map shared memory output"
NoConnection == "no coordinator connection"

\* dataflow state threaded through a handler: the RunningDataflow, what was
\* sent so far, the message of the Err it returned ("": Ok), whether a tcp
\* call failed
World(df) == [df |-> df, out |-> <<>>, err |-> "", io |-> FALSE]

\* channel.send(item) on subscribe_channels[r].  The handlers that act on a
\* failed send (the receiver was dropped) take the set `gone` of such receivers.
ChanSend(w, r, kind, id, tok) ==
  [w EXCEPT !.df.subscribe_channels[r] = ChannelPush(@, kind, id),
            !.out = Append(@, Ev("event", r, kind, id, tok))]

(***************************************************************************)
(* RunningDataflow                                                         *)
(***************************************************************************)
RunningDataflow_new(id) ==
  [id |-> id,
   pending_nodes |-> {},
   subscribe_replies |-> {},
   subscribe_channels |-> EmptyFn,
   drop_channels |-> {},
   mappings |-> EmptyFn,
   timers |-> EmptyFn,
   open_inputs |-> EmptyFn,
   running_nodes |-> {},
   external_nodes |-> {},
   open_external_mappings |-> EmptyFn,
   pending_drop_tokens |-> EmptyFn,
   timer_handles |-> <<>>,
   stop_sent |-> FALSE]

open_inputs(df, node_id) == Get(df.open_inputs, node_id, {})

\* the inner loop of spawn_dataflow over node_inputs(node)
RegisterInputs(df, node) ==
  LET local == node.machine = machine_id
      ins == DOMAIN node.inputs
      users == {i \in ins : node.inputs[i].kind = "User"}
      tims == {i \in ins : node.inputs[i].kind = "Timer"}
      okeys == {<<node.inputs[i].source, node.inputs[i].output>> : i \in users}
      ikeys == {node.inputs[i].interval : i \in tims}
      For(k) == {<<node.id, i>> : i \in {j \in users :
                    <<node.inputs[j].source, node.inputs[j].output>> = k}}
      ForIv(k) == {<<node.id, i>> : i \in {j \in tims : node.inputs[j].interval = k}}
  IN IF local
     THEN [df EXCEPT
            !.open_inputs = IF ins = {} THEN @
                            ELSE Put(@, node.id, Get(@, node.id, {}) \cup ins),
            !.mappings = [k \in (DOMAIN @) \cup okeys |->
                            Get(@, k, {}) \cup For(k)],
            !.timers = [k \in (DOMAIN @) \cup ikeys |->
                            Get(@, k, {}) \cup ForIv(k)]]
     ELSE [df EXCEPT
            !.open_external_mappings = [k \in (DOMAIN @) \cup okeys |->
               IF k \in okeys
               THEN Put(Get(@, k, EmptyFn), node.machine,
                        Get(Get(@, k, EmptyFn), node.machine, {}) \cup For(k))
               ELSE @[k]]]

\* the loop of spawn_dataflow from node k on; spawn::spawn_node fails for node
\* fail_at (0: for none).  Returns the dataflow, Ok/Err and the processes started.
RECURSIVE SpawnNodes(_, _, _, _, _)
SpawnNodes(df, nodes, k, fail_at, started) ==
  IF k > Len(nodes) THEN [df |-> df, ok |-> TRUE, started |-> started]
  ELSE LET node == nodes[k]
           df1 == RegisterInputs(df, node)
       IN IF node.machine = machine_id
          THEN LET df2 == [df1 EXCEPT !.pending_nodes = @ \cup {node.id}]
               IN IF k = fail_at
                  THEN [df |-> df2, ok |-> FALSE, started |-> started]
                  ELSE SpawnNodes([df2 EXCEPT !.running_nodes = @ \cup {node.id}],
                                  nodes, k + 1, fail_at, started \cup {node.id})
          ELSE SpawnNodes([df1 EXCEPT !.external_nodes = @ \cup {node.id}],
                          nodes, k + 1, fail_at, started)

spawn_dataflow(dataflow_id, nodes, fail_at) ==
  SpawnNodes(RunningDataflow_new(dataflow_id), nodes, 1, fail_at, {})

(***************************************************************************)
(* Helpers of the handlers.  Each takes and returns the World.             *)
(***************************************************************************)
\* close_input opening again an input that was closed before
close_input_toggling(w, receiver_id, input_id) ==
  LET has == receiver_id \in DOMAIN w.df.open_inputs
  IN IF has /\ input_id \notin w.df.open_inputs[receiver_id]
     THEN [w EXCEPT !.df.open_inputs[receiver_id] = @ \cup {input_id}]
     ELSE LET w1 == IF has
                    THEN [w EXCEPT !.df.open_inputs[receiver_id] = @ \ {input_id}]
                    ELSE w
          IN IF receiver_id \in DOMAIN w1.df.subscribe_channels
             THEN ChanSend(w1, receiver_id, "InputClosed", input_id, NoToken)
             ELSE w1

close_input(w, receiver_id, input_id) ==
  LET has == receiver_id \in DOMAIN w.df.open_inputs
  IN IF has /\ input_id \notin w.df.open_inputs[receiver_id]
     THEN w
     ELSE LET w1 == IF has
                    THEN [w EXCEPT !.df.open_inputs[receiver_id] = @ \ {input_id}]
                    ELSE w
          IN IF receiver_id \in DOMAIN w1.df.subscribe_channels
             THEN LET w2 == ChanSend(w1, receiver_id, "InputClosed", input_id, NoToken)
                  IN IF open_inputs(w2.df, receiver_id) = {}
                     THEN ChanSend(w2, receiver_id, "AllInputsClosed", "", NoToken)
                     ELSE w2
             ELSE w1

RECURSIVE CloseInputs(_, _)
CloseInputs(w, pairs) ==
  IF pairs = <<>> THEN w
  ELSE CloseInputs(close_input(w, Head(pairs)[1], Head(pairs)[2]), Tail(pairs))

\* BTreeMap::append(&mut self, other): the entries of `other` win
MapAppend(self, other) ==
  [m \in (DOMAIN self) \cup (DOMAIN other) |->
     IF m \in DOMAIN other THEN other[m] ELSE self[m]]

\* the loop over open_external_mappings, visited in the order `keys`
\* a drain that empties the inputs of each machine but keeps the machines
RECURSIVE DrainExternal_keeping_machines(_, _, _)
DrainExternal_keeping_machines(oem, keys, acc) ==
  IF keys = <<>> THEN [oem |-> oem, inputs |-> acc]
  ELSE DrainExternal_keeping_machines(
         [oem EXCEPT ![Head(keys)] = [m \in DOMAIN @ |-> {}]], Tail(keys),
         MapAppend(acc, oem[Head(keys)]))

RECURSIVE DrainExternal(_, _, _)
DrainExternal(oem, keys, acc) ==
  IF keys = <<>> THEN [oem |-> oem, inputs |-> acc]
  ELSE DrainExternal([oem EXCEPT ![Head(keys)] = EmptyFn], Tail(keys),
                     MapAppend(acc, oem[Head(keys)]))

\* `filter` is the set of OutputIds the closure accepts; `order` the order in
\* which the HashMap open_external_mappings yields its matching keys
send_input_closed_events(w, connected, filter, order, tcp_ok) ==
  LET local_node_inputs ==
        UNION {w.df.mappings[k] : k \in (DOMAIN w.df.mappings) \cap filter}
      w1 == CloseInputs(w, SortPairs(local_node_inputs))
      dr == DrainExternal(w1.df.open_external_mappings, order, EmptyFn)
      w2 == [w1 EXCEPT !.df.open_external_mappings = dr.oem]
  IN IF DOMAIN dr.inputs = {} THEN w2
     ELSE IF ~connected THEN [w2 EXCEPT !.err = NoConnection]
     ELSE IF ~tcp_ok THEN [w2 EXCEPT !.err = TcpFailed, !.io = TRUE]
     ELSE [w2 EXCEPT !.out = Append(@, Frame("InputsClosed", w.df.id, dr.inputs))]

\* the orders in which the matching keys of open_external_mappings can come
RECURSIVE Orders(_)
Orders(S) ==
  IF S = {} THEN {<<>>}
  ELSE UNION {{<<k>> \o t : t \in Orders(S \ {k})} : k \in S}
ExternalOrders(df, filter) == Orders((DOMAIN df.open_external_mappings) \cap filter)

\* the report of a released token to its owner: the send into the owner's drop
\* channel, which fails when the owner has dropped the receiving end
\* (drop_ok = FALSE); a failed send and a missing channel are logged
ReportToOwner(w, owner, token, drop_ok) ==
  IF owner \in w.df.drop_channels
  THEN IF drop_ok
       THEN [w EXCEPT !.out = Append(@, Ev("drop", owner, "OutputDropped", "", token))]
       ELSE [w EXCEPT !.out = Append(@, Ev("warn", owner, "SendFailed", "", token))]
  ELSE [w EXCEPT !.out = Append(@, Ev("warn", owner, "NoDropChannel", "", token))]

\* check_drop_token without the test that pending_nodes is empty
check_drop_token_unchecked(w, token, drop_ok) ==
  IF token \in DOMAIN w.df.pending_drop_tokens
  THEN LET info == w.df.pending_drop_tokens[token]
       IN ReportToOwner([w EXCEPT !.df.pending_drop_tokens = Del(@, token)],
                        info.owner, token, drop_ok)
  ELSE w

check_drop_token(w, token, drop_ok) ==
  IF token \in DOMAIN w.df.pending_drop_tokens
  THEN LET info == w.df.pending_drop_tokens[token]
       IN IF info.pending_nodes = {}
          THEN ReportToOwner([w EXCEPT !.df.pending_drop_tokens = Del(@, token)],
                             info.owner, token, drop_ok)
          ELSE w
  ELSE w

DropTokenInformation(owner) == [owner |-> owner, pending_nodes |-> {}]
\* an entry created with its owner among the pending nodes
OrInsert_owner_pending(w, token, owner) ==
  IF token \in DOMAIN w.df.pending_drop_tokens THEN w
  ELSE [w EXCEPT !.df.pending_drop_tokens =
          Put(@, token, [owner |-> owner, pending_nodes |-> {owner}])]

\* pending_drop_tokens.entry(token).or_insert_with(..)
OrInsert(w, token, owner) ==
  IF token \in DOMAIN w.df.pending_drop_tokens THEN w
  ELSE [w EXCEPT !.df.pending_drop_tokens = Put(@, token, DropTokenInformation(owner))]

\* the loop over local_receivers; `closed` collects the receivers whose send failed
RECURSIVE DeliverLocal(_, _, _, _, _, _)
DeliverLocal(w, receivers, node_id, token, gone, closed) ==
  IF receivers = <<>> THEN [w |-> w, closed |-> closed]
  ELSE LET r == Head(receivers)[1]
           i == Head(receivers)[2]
       IN IF r \in DOMAIN w.df.subscribe_channels
          THEN IF r \notin gone
               THEN LET w1 == ChanSend(w, r, "Input", i, token)
                        w2 == IF token # NoToken
                              THEN [OrInsert(w1, token, node_id) EXCEPT
                                      !.df.pending_drop_tokens[token].pending_nodes =
                                         @ \cup {r}]
                              ELSE w1
                    IN DeliverLocal(w2, Tail(receivers), node_id, token, gone, closed)
               ELSE DeliverLocal(w, Tail(receivers), node_id, token, gone,
                                 closed \cup {r})
          ELSE DeliverLocal(w, Tail(receivers), node_id, token, gone, closed)

RemoveChannels(w, closed) ==
  [w EXCEPT !.df.subscribe_channels = [n \in (DOMAIN @) \ closed |-> @[n]]]

\* send_output_to_local_receivers dropping the channels it has delivered to
send_output_to_local_receivers_once(w, node_id, output_id, data, gone, shm_ok, drop_ok) ==
  LET local_receivers == Get(w.df.mappings, <<node_id, output_id>>, {})
      token == IF data.kind = "Shmem" THEN data.token ELSE NoToken
      d == DeliverLocal(w, SortPairs(local_receivers), node_id, token, gone, {})
      w1 == RemoveChannels(d.w, d.closed \cup {p[1] : p \in local_receivers})
  IN IF data.kind = "Shmem"
     THEN IF ~shm_ok THEN [w1 EXCEPT !.err = ShmemFailed]
          ELSE check_drop_token(OrInsert(w1, token, node_id), token, drop_ok)
     ELSE w1

\* data: [kind |-> "None" | "Vec" | "Shmem", token]; shm_ok: ShmemConf::open succeeds
send_output_to_local_receivers(w, node_id, output_id, data, gone, shm_ok, drop_ok) ==
  LET local_receivers == Get(w.df.mappings, <<node_id, output_id>>, {})
      token == IF data.kind = "Shmem" THEN data.token ELSE NoToken
      d == DeliverLocal(w, SortPairs(local_receivers), node_id, token, gone, {})
      w1 == RemoveChannels(d.w, d.closed)
  IN IF data.kind = "Shmem"
     THEN IF ~shm_ok THEN [w1 EXCEPT !.err = ShmemFailed]
          ELSE check_drop_token(OrInsert(w1, token, node_id), token, drop_ok)
     ELSE w1

RECURSIVE Replies(_)
Replies(ns) ==
  IF ns = <<>> THEN <<>>
  ELSE <<Ev("reply", Head(ns), "SubscribeReply", "", NoToken)>> \o Replies(Tail(ns))
RECURSIVE SeqOfSet(_)
SeqOfSet(S) ==
  IF S = {} THEN <<>>
  ELSE LET m == CHOOSE x \in S : \A y \in S : x <= y IN <<m>> \o SeqOfSet(S \ {m})

\* start answering one subscribe request only
start_first_reply(w) ==
  LET held == SortNodes(w.df.subscribe_replies)
  IN [w EXCEPT !.out = @ \o Replies(SubSeq(held, 1, 1)),
               !.df.subscribe_replies = @ \ {held[k] : k \in 1..1 \cap DOMAIN held},
               !.df.timer_handles = @ \o SeqOfSet(DOMAIN w.df.timers)]

start(w) ==
  [w EXCEPT !.out = @ \o Replies(SortNodes(w.df.subscribe_replies)),
            !.df.subscribe_replies = {},
            !.df.timer_handles = @ \o SeqOfSet(DOMAIN w.df.timers)]

RECURSIVE StopChannels(_, _)
StopChannels(w, ns) ==
  IF ns = <<>> THEN w
  ELSE StopChannels(ChanSend(w, Head(ns), "Stop", "", NoToken), Tail(ns))
\* the channels are drained from the map once Stop has been sent into each; the
\* sent events stay in w.out
stop_all(w) ==
  LET w1 == StopChannels(w, SortNodes(DOMAIN w.df.subscribe_channels))
  IN [w1 EXCEPT !.df.subscribe_channels = EmptyFn, !.df.stop_sent = TRUE]

\* Daemon::subscribe for a known dataflow: replay into the new channel, then
\* insert it
RECURSIVE ReplayClosed(_, _, _)
ReplayClosed(w, node_id, inputs) ==
  IF inputs = <<>> THEN w
  ELSE ReplayClosed(ChanSend(w, node_id, "InputClosed", Head(inputs)[2], NoToken),
                    node_id, Tail(inputs))
\* a subscribe that reports the closures after the Stop
subscribe_stop_first(w, node_id) ==
  LET closed_inputs ==
        {p \in UNION Range(w.df.mappings) :
            /\ p[1] = node_id
            /\ IF node_id \in DOMAIN w.df.open_inputs
               THEN p[2] \notin w.df.open_inputs[node_id] ELSE TRUE}
      w0 == [w EXCEPT !.df.subscribe_channels = Put(@, node_id, NewChannel)]
      w1 == IF w0.df.stop_sent THEN ChanSend(w0, node_id, "Stop", "", NoToken) ELSE w0
      w2 == ReplayClosed(w1, node_id, SortPairs(closed_inputs))
  IN IF open_inputs(w2.df, node_id) = {}
     THEN ChanSend(w2, node_id, "AllInputsClosed", "", NoToken) ELSE w2

subscribe(w, node_id) ==
  LET closed_inputs ==
        {p \in UNION Range(w.df.mappings) :
            /\ p[1] = node_id
            /\ IF node_id \in DOMAIN w.df.open_inputs
               THEN p[2] \notin w.df.open_inputs[node_id] ELSE TRUE}
      w0 == [w EXCEPT !.df.subscribe_channels = Put(@, node_id, NewChannel)]
      w1 == ReplayClosed(w0, node_id, SortPairs(closed_inputs))
      w2 == IF open_inputs(w1.df, node_id) = {}
            THEN ChanSend(w1, node_id, "AllInputsClosed", "", NoToken) ELSE w1
  IN IF w2.df.stop_sent THEN ChanSend(w2, node_id, "Stop", "", NoToken) ELSE w2

handle_outputs_done(w, connected, node_id, order, tcp_ok) ==
  LET w1 == send_input_closed_events(w, connected,
                                     {<<node_id, o>> : o \in DataIds}, order, tcp_ok)
  IN IF w1.err # "" THEN w1
     ELSE [w1 EXCEPT !.df.drop_channels = @ \ {node_id}]

\* handle_node_stop reporting the finish at the exit of every node
handle_node_stop_every_exit(w, connected, node_id, order, tcp_ok, fin_ok) ==
  LET w1 == handle_outputs_done(w, connected, node_id, order, tcp_ok)
      w2 == [w1 EXCEPT !.df.running_nodes = @ \ {node_id}]
  IN IF w1.err # "" THEN [w |-> w1, removed |-> FALSE]
     ELSE [w |-> [w2 EXCEPT !.out = Append(@, Frame("AllNodesFinished", w.df.id, {}))],
           removed |-> w2.df.running_nodes = {}]

\* handle_node_stop without the closure of the node's outputs
handle_node_stop_no_closure(w, connected, node_id, order, tcp_ok, fin_ok) ==
  LET w2 == [w EXCEPT !.df.running_nodes = @ \ {node_id},
                      !.df.drop_channels = @ \ {node_id}]
  IN IF w2.df.running_nodes = {}
     THEN [w |-> [w2 EXCEPT !.out = Append(@, Frame("AllNodesFinished", w.df.id, {}))],
           removed |-> TRUE]
     ELSE [w |-> w2, removed |-> FALSE]

\* returns the World and whether the dataflow is to be removed from `running`;
\* fin_ok: the tcp_send of AllNodesFinished succeeds
\* handle_node_stop stopping the nodes that are left
handle_node_stop_stopping_siblings(w, connected, node_id, order, tcp_ok, fin_ok) ==
  LET w1 == handle_outputs_done(w, connected, node_id, order, tcp_ok)
      w2 == stop_all([w1 EXCEPT !.df.running_nodes = @ \ {node_id}])
  IN IF w1.err # "" THEN [w |-> w1, removed |-> FALSE]
     ELSE [w |-> w2, removed |-> FALSE]

handle_node_stop(w, connected, node_id, order, tcp_ok, fin_ok) ==
  LET w1 == handle_outputs_done(w, connected, node_id, order, tcp_ok)
      w2 == [w1 EXCEPT !.df.running_nodes = @ \ {node_id}]
  IN IF w1.err # "" THEN [w |-> w1, removed |-> FALSE]
     ELSE IF w2.df.running_nodes = {}
     THEN IF connected
          THEN IF fin_ok
               THEN [w |-> [w2 EXCEPT !.out =
                        Append(@, Frame("AllNodesFinished", w.df.id, {}))],
                     removed |-> TRUE]
               ELSE [w |-> [w2 EXCEPT !.err = TcpFailed, !.io = TRUE], removed |-> FALSE]
          ELSE [w |-> w2, removed |-> TRUE]
     ELSE [w |-> w2, removed |-> FALSE]

(***************************************************************************)
(* Observation.  `emitted` holds what the last handled event sent to the   *)
(* nodes' event and drop channels, the Subscribe replies it released and   *)
(* the frames it sent to the coordinator; `hist` sums up what was sent     *)
(* since the start.  With hist.verbose set, `emitted` also holds the       *)
(* replies to the coordinator's push events (reply_tx.send(reply)) and the *)
(* tracing lines of the nodes' exits.                                      *)
(***************************************************************************)
Watched(e) ==
  \/ e.ch \in {"event", "drop", "coord", "warn", "ack"}
  \/ e.ch = "reply" /\ e.kind = "SubscribeReply"
  \/ e.ch \in {"creply", "log"} /\ hist.verbose
Emitted(out) == SelectSeq(out, Watched)

NoHist ==
  [ready_received |-> FALSE,\* an AllNodesReady push was handled for the dataflow
   finished |-> 0,          \* Event(AllNodesFinished) frames sent (0..MaxCount)
   launched |-> {},         \* timer intervals an emitter was launched for
   verbose |-> FALSE,       \* `emitted` shows the push replies and exit logs
   tokens |-> EmptyFn]      \* published token -> owner, the nodes that accepted
                            \* it, the nodes that reported it, the OutputDropped
                            \* delivered for it (0..MaxCount), the releases that
                            \* were not delivered (0..MaxCount), whether the
                            \* owner had a drop channel when it published,
                            \* whether a send into its drop channel failed

ObserveEv(h, e) ==
  IF e.ch = "event" /\ e.kind = "Input" /\ e.tok # NoToken
  THEN [h EXCEPT !.tokens[e.tok].accepted = @ \cup {e.to}]
  ELSE IF e.ch = "drop"
  THEN [h EXCEPT !.tokens[e.tok].delivered = Inc(@)]
  ELSE IF e.ch = "warn"
  THEN [h EXCEPT !.tokens[e.tok].undelivered = Inc(@),
                 !.tokens[e.tok].failed = @ \/ e.kind = "SendFailed"]
  ELSE IF e.ch = "coord" /\ e.kind = "AllNodesFinished"
  THEN [h EXCEPT !.finished = Inc(@)]
  ELSE h
RECURSIVE Observe(_, _)
Observe(h, out) ==
  IF out = <<>> THEN h ELSE Observe(ObserveEv(h, Head(out)), Tail(out))

(***************************************************************************)
(* The coordinator's ready barrier: it adds each daemon that reports       *)
(* Event(AllNodesReady) and, when every participating machine has          *)
(* reported, pushes AllNodesReady to the daemons.                          *)
(***************************************************************************)
NoCoord == [machines |-> {}, ready |-> {}, push |-> FALSE]
CoordReady(c, m) ==
  LET r == c.ready \cup {m}
  IN [c EXCEPT !.ready = r, !.push = @ \/ (c.machines # {} /\ r = c.machines)]
ReportsReady(out) ==
  \E k \in 1..Len(out) : out[k].ch = "coord" /\ out[k].kind = "AllNodesReady"

\* Option<T>
None == <<>>
Some(x) == <<x>>

\* run connects to the coordinator and passes no exit_when_done; run_dataflow
\* passes no coordinator address and the nodes to wait for
coordinator_connection == exit_when_done = None

\* the coordinator's spawn_dataflow before a dataflow is submitted
NoSubmission ==
  [pc |-> "idle", machines |-> {}, connections |-> {}, todo |-> <<>>,
   log |-> <<>>, result |-> ""]

(***************************************************************************)
(* The event loop.  Leaving the loop drops the Daemon and with it every    *)
(* RunningDataflow.                                                        *)
(***************************************************************************)
\* the Daemon as run_general builds it, observed as h, waiting for ewd
InitWith(h, ewd) ==
  /\ status = "running"
  /\ failure = ""
  /\ running = EmptyFn
  /\ emitted = <<>>
  /\ io_failed = FALSE
  /\ spawned = {}
  /\ reaped = {}
  /\ spawn_ok = {}
  /\ spawn_seen = {}
  /\ coord = NoCoord
  /\ next_token = 1
  /\ hist = h
  /\ exit_when_done = ewd
  /\ dataflow_errors = <<>>
  /\ submission = NoSubmission

Init == InitWith(NoHist, None)

Modes == <<exit_when_done, dataflow_errors, submission>>
Env == <<spawned, reaped, spawn_ok, spawn_seen, next_token, Modes>>

\* the handler returned Ok: the loop goes on with the dataflow as the handler
\* left it; c is the coordinator's barrier before it sees what was sent
Continue(d, w, removed, h, c) ==
  /\ status' = "running"
  /\ failure' = ""
  /\ running' = IF removed THEN Del(running, d) ELSE Put(running, d, w.df)
  /\ emitted' = Emitted(w.out)
  /\ io_failed' = w.io
  /\ hist' = Observe(h, w.out)
  /\ coord' = IF ReportsReady(w.out) THEN CoordReady(c, machine_id) ELSE c

\* the handler's error reaches run_inner's `?` (st = "error"), or the loop
\* breaks (st = "exit")
Leave(st, msg, out, io, h) ==
  /\ status' = st
  /\ failure' = msg
  /\ running' = EmptyFn
  /\ emitted' = Emitted(out)
  /\ io_failed' = io
  /\ hist' = Observe(h, out)
  /\ coord' = coord

\* the event changes nothing but what it sends
Skip(out) ==
  /\ status' = "running"
  /\ failure' = ""
  /\ emitted' = Emitted(out)
  /\ io_failed' = FALSE
  /\ UNCHANGED <<running, hist, coord>>

Finish(d, w, removed, h) ==
  IF w.err # "" THEN Leave("error", w.err, w.out, w.io, h)
  ELSE Continue(d, w, removed, h, coord)

CReply(kind, result) == Ev("creply", "", kind, result, NoToken)
NReply(n, result) == Ev("reply", n, "Result", result, NoToken)
Sent(w, e) == [w EXCEPT !.out = Append(@, e)]
\* a daemon that takes every dataflow for a local one
external_nodes_ignored(df) == TRUE
external_nodes_is_empty(df) == df.external_nodes = {}
StartAllowed(df) ==
  Len(df.timer_handles) + Cardinality(DOMAIN df.timers) <= MaxTimerHandles
Launch(h, df) == [h EXCEPT !.launched = @ \cup DOMAIN df.timers]

(* ---------------- coordinator push events ---------------- *)
LocalIndexes(desc) == {k \in 1..Len(desc) : desc[k].machine = machine_id}

\* Spawn replacing the RunningDataflow of an id that is already running
Spawn_overwriting(d, desc, fail_at) ==
  /\ status = "running"
  /\ d \in DOMAIN running \/ d \notin spawn_seen
  /\ LET res == spawn_dataflow(d, desc, fail_at)
     IN /\ status' = "running"
        /\ failure' = ""
        /\ running' = Put(running, d, res.df)
        /\ emitted' = Emitted(<<CReply("SpawnResult", IF res.ok THEN "Ok" ELSE "Err")>>)
        /\ io_failed' = FALSE
        /\ spawned' = spawned \cup res.started
        /\ spawn_seen' = spawn_seen \cup {d}
        /\ spawn_ok' = IF res.ok THEN spawn_ok \cup {d} ELSE spawn_ok
        /\ coord' = IF res.ok THEN [NoCoord EXCEPT !.machines = Machines(desc)]
                    ELSE NoCoord
        /\ UNCHANGED <<reaped, next_token, hist, Modes>>

Spawn(d, desc, fail_at) ==
  /\ status = "running"
  /\ IF d \in DOMAIN running
     THEN /\ Skip(<<CReply("SpawnResult", "Err")>>)
          /\ UNCHANGED Env
     ELSE LET res == spawn_dataflow(d, desc, fail_at)
          IN /\ d \notin spawn_seen
             /\ status' = "running"
             /\ failure' = ""
             /\ running' = Put(running, d, res.df)
             /\ emitted' = Emitted(<<CReply("SpawnResult", IF res.ok THEN "Ok" ELSE "Err")>>)
             /\ io_failed' = FALSE
             /\ spawned' = spawned \cup res.started
             /\ spawn_seen' = spawn_seen \cup {d}
             /\ spawn_ok' = IF res.ok THEN spawn_ok \cup {d} ELSE spawn_ok
             /\ coord' = IF res.ok THEN [NoCoord EXCEPT !.machines = Machines(desc)]
                         ELSE NoCoord
             /\ UNCHANGED <<reaped, next_token, hist, Modes>>

AllNodesReady(d) ==
  /\ status = "running"
  /\ d \in SpawnIds => coord.push
  /\ LET c == IF d \in SpawnIds THEN [coord EXCEPT !.push = FALSE] ELSE coord
     IN IF d \in DOMAIN running
        THEN /\ StartAllowed(running[d])
             /\ Continue(d, start(World(running[d])), FALSE,
                         [Launch(hist, running[d]) EXCEPT !.ready_received = TRUE], c)
        ELSE /\ status' = "running"
             /\ failure' = ""
             /\ emitted' = <<>>
             /\ io_failed' = FALSE
             /\ coord' = c
             /\ UNCHANGED <<running, hist>>
  /\ UNCHANGED Env

\* Daemon::send_reload
send_reload(w, node_id, gone) ==
  IF node_id \in DOMAIN w.df.subscribe_channels
  THEN IF node_id \notin gone THEN ChanSend(w, node_id, "Reload", "", NoToken)
       ELSE RemoveChannels(w, {node_id})
  ELSE w

ReloadDataflow(d, n, gone) ==
  /\ status = "running"
  /\ IF d \in DOMAIN running
     THEN Continue(d, Sent(send_reload(World(running[d]), n, gone),
                           CReply("ReloadResult", "Ok")), FALSE, hist, coord)
     ELSE Skip(<<CReply("ReloadResult", "Err")>>)
  /\ UNCHANGED Env

\* StopDataflow answering only when the dataflow is known
StopDataflow_replying_on_success(d) ==
  /\ status = "running"
  /\ IF d \in DOMAIN running
     THEN Continue(d, Sent(stop_all(World(running[d])), CReply("StopResult", "Ok")),
                   FALSE, hist, coord)
     ELSE Skip(<<>>)
  /\ UNCHANGED Env

StopDataflow(d) ==
  /\ status = "running"
  /\ IF d \in DOMAIN running
     THEN Continue(d, Sent(stop_all(World(running[d])), CReply("StopResult", "Ok")),
                   FALSE, hist, coord)
     ELSE Skip(<<CReply("StopResult", "Err")>>)
  /\ UNCHANGED Env

\* Destroy answered without leaving the loop
Destroy_continuing ==
  /\ status = "running"
  /\ Skip(<<CReply("DestroyResult", "Ok")>>)
  /\ UNCHANGED Env

Destroy ==
  /\ status = "running"
  /\ Leave("exit", "", <<CReply("DestroyResult", "Ok")>>, FALSE, hist)
  /\ UNCHANGED Env

Watchdog ==
  /\ status = "running"
  /\ Skip(<<CReply("WatchdogAck", "Ok")>>)
  /\ UNCHANGED Env

\* a relayed output carries its bytes inline: data.map(Data::Vec); a payload
\* of None is routed as a Vec is
RelayData == {[kind |-> "Vec", token |-> NoToken]}
\* Output forwarding the relayed output to the machines registered for it
Output_relaying(d, n, o, data, gone) ==
  /\ status = "running"
  /\ IF d \in DOMAIN running
     THEN LET w == [send_output_to_local_receivers(World(running[d]), n, o, data, gone,
                                                   TRUE, TRUE)
                      EXCEPT !.err = ""]
              remote == DOMAIN Get(w.df.open_external_mappings, <<n, o>>, EmptyFn)
          IN Continue(d, IF remote = {} THEN w
                         ELSE Sent(w, [Frame("Output", o, remote) EXCEPT !.to = n]),
                      FALSE, hist, coord)
     ELSE Skip(<<>>)
  /\ UNCHANGED Env

Output(d, n, o, data, gone) ==
  /\ status = "running"
  /\ IF d \in DOMAIN running
     THEN Continue(d, [send_output_to_local_receivers(World(running[d]), n, o, data, gone,
                                                     TRUE, TRUE)
                         EXCEPT !.err = ""], FALSE, hist, coord)
     ELSE Skip(<<>>)
  /\ UNCHANGED Env

InputsClosed(d, inputs) ==
  /\ status = "running"
  /\ IF d \in DOMAIN running
     THEN Continue(d, CloseInputs(World(running[d]), inputs), FALSE, hist, coord)
     ELSE Skip(<<>>)
  /\ UNCHANGED Env

(* ---------------- node events ---------------- *)
Subscribe(d, n, tcp_ok) ==
  /\ status = "running"
  /\ IF d \in DOMAIN running
     THEN LET w1 == subscribe(World(running[d]), n)
              w2 == [w1 EXCEPT !.df.subscribe_replies = @ \cup {n},
                               !.df.pending_nodes = @ \ {n}]
          IN IF w2.df.pending_nodes = {}
             THEN IF external_nodes_is_empty(w2.df)
                  THEN /\ StartAllowed(w2.df)
                       /\ Continue(d, start(w2), FALSE, Launch(hist, w2.df), coord)
                  ELSE IF ~coordinator_connection
                  THEN Leave("error", NoConnection, w2.out, FALSE, hist)
                  ELSE IF tcp_ok
                  THEN Continue(d, Sent(w2, Frame("AllNodesReady", d, {})), FALSE,
                                hist, coord)
                  ELSE Leave("error", TcpFailed, w2.out, TRUE, hist)
             ELSE Continue(d, w2, FALSE, hist, coord)
     ELSE Leave("error", NoDataflow, <<>>, FALSE, hist)
  /\ UNCHANGED Env

SubscribeDrop(d, n) ==
  /\ status = "running"
  /\ IF d \in DOMAIN running
     THEN Continue(d, Sent([World(running[d]) EXCEPT !.df.drop_channels = @ \cup {n}],
                           NReply(n, "Ok")), FALSE, hist, coord)
     ELSE Leave("error", NoDataflow, <<>>, FALSE, hist)
  /\ UNCHANGED Env

\* the error of send_input_closed_events goes into the reply, not to run_inner
CloseOutputs(d, n, outputs, order, tcp_ok) ==
  /\ status = "running"
  /\ IF d \in DOMAIN running
     THEN LET w1 == send_input_closed_events(World(running[d]), coordinator_connection,
                       {<<n, o>> : o \in outputs}, order, tcp_ok)
          IN Continue(d, [Sent(w1, NReply(n, IF w1.err # "" THEN "Err" ELSE "Ok"))
                            EXCEPT !.err = ""], FALSE, hist, coord)
     ELSE Skip(<<NReply(n, "Err")>>)
  /\ UNCHANGED Env

OutputsDone(d, n, order, tcp_ok) ==
  /\ status = "running"
  /\ IF d \in DOMAIN running
     THEN Finish(d, handle_outputs_done(Sent(World(running[d]), NReply(n, "Ok")),
                                        coordinator_connection, n, order, tcp_ok),
                 FALSE, hist)
     ELSE Leave("error", NoDataflow, <<NReply(n, "Ok")>>, FALSE, hist)
  /\ UNCHANGED Env

\* subscribed: the owner had a drop channel when it published the token
Publish(h, df, data, owner) ==
  IF data.kind = "Shmem"
  THEN [h EXCEPT !.tokens = Put(@, data.token,
          [owner |-> owner, subscribed |-> owner \in df.drop_channels,
           accepted |-> {}, reported |-> {}, delivered |-> 0, undelivered |-> 0,
           failed |-> FALSE])]
  ELSE h

\* Daemon::send_out after the local delivery: the relay to the coordinator
RelayOutput(w, node_id, output_id, tcp_ok) ==
  LET remote_receivers ==
        DOMAIN Get(w.df.open_external_mappings, <<node_id, output_id>>, EmptyFn)
  IN IF remote_receivers = {} THEN w
     ELSE IF ~coordinator_connection THEN [w EXCEPT !.err = NoConnection]
     ELSE IF ~tcp_ok THEN [w EXCEPT !.err = TcpFailed, !.io = TRUE]
     ELSE Sent(w, [Frame("Output", output_id, remote_receivers) EXCEPT !.to = node_id])

send_out(w, node_id, output_id, data, gone, shm_ok, drop_ok, tcp_ok) ==
  LET w1 == send_output_to_local_receivers(w, node_id, output_id, data, gone, shm_ok,
                                           drop_ok)
  IN IF w1.err # "" THEN w1 ELSE RelayOutput(w1, node_id, output_id, tcp_ok)

InlineData == {[kind |-> "Vec", token |-> NoToken]}
SharedData == {[kind |-> "Shmem", token |-> next_token]}
SendOut(d, n, o, data, gone, shm_ok, drop_ok, tcp_ok) ==
  /\ status = "running"
  /\ data.kind = "Shmem" => next_token <= MaxTokens
  /\ IF d \in DOMAIN running
     THEN Finish(d, send_out(World(running[d]), n, o, data, gone, shm_ok, drop_ok,
                             tcp_ok), FALSE, Publish(hist, running[d], data, n))
     ELSE Leave("error", NoDataflow, <<>>, FALSE, hist)
  /\ next_token' = IF data.kind = "Shmem" THEN next_token + 1 ELSE next_token
  /\ UNCHANGED <<spawned, reaped, spawn_ok, spawn_seen, Modes>>

\* the loop of the ReportDrop handler without the call of check_drop_token
RECURSIVE ReportTokens_without_check(_, _, _, _)
ReportTokens_without_check(w, node_id, tokens, drop_ok) ==
  IF tokens = <<>> THEN w
  ELSE LET token == Head(tokens)
           w1 == IF token \in DOMAIN w.df.pending_drop_tokens
                 THEN [w EXCEPT !.df.pending_drop_tokens[token].pending_nodes =
                                   @ \ {node_id}]
                 ELSE w
       IN ReportTokens_without_check(w1, node_id, Tail(tokens), drop_ok)

\* the loop of the ReportDrop handler
RECURSIVE ReportTokens(_, _, _, _)
ReportTokens(w, node_id, tokens, drop_ok) ==
  IF tokens = <<>> THEN w
  ELSE LET token == Head(tokens)
           w1 == IF token \in DOMAIN w.df.pending_drop_tokens
                 THEN IF node_id \in w.df.pending_drop_tokens[token].pending_nodes
                      THEN check_drop_token(
                             [w EXCEPT !.df.pending_drop_tokens[token].pending_nodes =
                                          @ \ {node_id}], token, drop_ok)
                      ELSE w
                 ELSE w
       IN ReportTokens(w1, node_id, Tail(tokens), drop_ok)

Reported(h, node_id, tokens) ==
  [h EXCEPT !.tokens = [t \in DOMAIN @ |->
     IF \E k \in 1..Len(tokens) : tokens[k] = t
     THEN [@[t] EXCEPT !.reported = @ \cup {node_id}] ELSE @[t]]]

ReportDrop(d, n, tokens, drop_ok) ==
  /\ status = "running"
  /\ IF d \in DOMAIN running
     THEN Continue(d, ReportTokens(World(running[d]), n, tokens, drop_ok), FALSE,
                   Reported(hist, n, tokens), coord)
     ELSE Leave("error", NoDataflow, <<>>, FALSE, hist)
  /\ UNCHANGED Env

EventStreamDropped(d, n) ==
  /\ status = "running"
  /\ IF d \in DOMAIN running
     THEN Continue(d, Sent(RemoveChannels(World(running[d]), {n}), NReply(n, "Ok")),
                   FALSE, hist, coord)
     ELSE Skip(<<NReply(n, "Err")>>)
  /\ UNCHANGED Env

(* ---------------- internal events ---------------- *)
TimerTick(d, interval, gone) ==
  /\ status = "running"
  /\ interval \in hist.launched
  /\ IF d \in DOMAIN running /\ interval \in DOMAIN running[d].timers
     THEN LET t == DeliverLocal(World(running[d]), SortPairs(running[d].timers[interval]),
                                "", NoToken, gone, {})
          IN Continue(d, RemoveChannels(t.w, t.closed), FALSE, hist, coord)
     ELSE Skip(<<>>)
  /\ UNCHANGED Env

ExitStatuses == {"Success", "ExitCode"}
\* the tracing line of the node_error match: info for Success, warn or error
\* for the other exit statuses
NodeExit(n, exit_status) == Ev("log", n, "NodeExit", exit_status, NoToken)
\* the exit-when-done block with every exit pushed as an error
record_exit_as_error(d, n, exit_status) ==
  [errors |-> Append(dataflow_errors, <<d, n>>),
   left |-> exit_when_done[1] \ {<<d, n>>}]
\* the exit-when-done block: the error of a node that did not succeed is
\* pushed, the node is removed from the set the daemon waits for
record_exit(d, n, exit_status) ==
  [errors |-> IF exit_status # "Success" THEN Append(dataflow_errors, <<d, n>>)
              ELSE dataflow_errors,
   left |-> exit_when_done[1] \ {<<d, n>>}]
\* the handler after handle_node_stop: its `?`, then the exit-when-done block
NodeStopped(d, n, exit_status, w, removed) ==
  IF w.err # ""
  THEN /\ Leave("error", w.err, w.out, w.io, hist)
       /\ UNCHANGED <<exit_when_done, dataflow_errors>>
  ELSE IF exit_when_done = None
  THEN /\ Continue(d, w, removed, hist, coord)
       /\ UNCHANGED <<exit_when_done, dataflow_errors>>
  ELSE LET rec == record_exit(d, n, exit_status)
       IN /\ dataflow_errors' = rec.errors
          /\ exit_when_done' = Some(rec.left)
          /\ IF rec.left = {}
             THEN Leave("exit", "", w.out, w.io, hist)
             ELSE Continue(d, w, removed, hist, coord)

SpawnedNodeResult(d, n, exit_status, order, tcp_ok, fin_ok) ==
  /\ status = "running"
  /\ n \in spawned \ reaped
  /\ IF d \in DOMAIN running
     THEN LET r == handle_node_stop(Sent(World(running[d]), NodeExit(n, exit_status)),
                                    coordinator_connection, n, order, tcp_ok, fin_ok)
          IN NodeStopped(d, n, exit_status, r.w, r.removed)
     ELSE /\ Leave("error", NoDataflow, <<NodeExit(n, exit_status)>>, FALSE, hist)
          /\ UNCHANGED <<exit_when_done, dataflow_errors>>
  /\ reaped' = reaped \cup {n}
  /\ UNCHANGED <<spawned, spawn_ok, spawn_seen, next_token, submission>>

\* the reply frame tcp_receive returned, parsed as a WatchdogAck
WatchdogAck == Ev("ack", "", "WatchdogAck", "", NoToken)
WatchdogInterval(send_ok, recv_ok) ==
  /\ status = "running"
  /\ IF ~coordinator_connection THEN Skip(<<>>)
     ELSE IF ~send_ok THEN Leave("error", TcpFailed, <<>>, TRUE, hist)
     ELSE IF ~recv_ok THEN Leave("error", TcpFailed, <<Frame("Watchdog", "", {})>>, TRUE, hist)
     ELSE Skip(<<Frame("Watchdog", "", {}), WatchdogAck>>)
  /\ UNCHANGED Env

RECURSIVE StopAll(_, _)
StopAll(run, ds) ==
  IF ds = {} THEN [run |-> run, out |-> <<>>]
  ELSE LET d == CHOOSE x \in ds : TRUE
           w == stop_all(World(run[d]))
           rest == StopAll(run, ds \ {d})
       IN [run |-> [rest.run EXCEPT ![d] = w.df], out |-> w.out \o rest.out]
CtrlC ==
  /\ status = "running"
  /\ LET r == StopAll(running, DOMAIN running)
     IN /\ running' = r.run
        /\ emitted' = Emitted(r.out)
        /\ hist' = Observe(hist, r.out)
  /\ status' = "running"
  /\ failure' = ""
  /\ io_failed' = FALSE
  /\ UNCHANGED <<coord, Env>>

(* ---------------- the environment ---------------- *)
\* another daemon of the dataflow reports Event(AllNodesReady) to the coordinator
PeerReady(m) ==
  /\ m \in coord.machines \ (coord.ready \cup {machine_id})
  /\ coord' = CoordReady(coord, m)
  /\ UNCHANGED <<status, failure, running, emitted, io_failed, hist, Env>>

\* the inputs a coordinator InputsClosed names: an input of b fed from
\* another machine, and an input of a, which has none
ClosedInputSets == {<<<<"b", "in2">>>>, <<<<"a", "in1">>>>}
\* the outputs the coordinator relays: one of a remote node, one of a local node
RelayedOutputs == {<<"c", "z">>, <<"a", "x">>}
\* the outputs the nodes name in SendOut and CloseOutputs
NodeOutputs == {"x", "y"}
OrdersFor(d, filter) ==
  IF d \in DOMAIN running THEN ExternalOrders(running[d], filter) ELSE {<<>>}
\* the receivers among `pairs` whose end of the channel may have been dropped
Gone(d, pairs) ==
  IF d \in DOMAIN running
  THEN SUBSET ({p[1] : p \in pairs} \cap DOMAIN running[d].subscribe_channels)
  ELSE {{}}
Receivers(d, k) == IF d \in DOMAIN running THEN Get(running[d].mappings, k, {}) ELSE {}
Ticked(d, k) == IF d \in DOMAIN running THEN Get(running[d].timers, k, {}) ELSE {}
\* a tcp_send can fail wherever one is made: when the closure of `filter`
\* reports remote inputs, when the output has remote receivers, when the last
\* pending node of a dataflow with external nodes subscribes, when the last
\* node exits; a send into a drop channel can fail when the owner has one
Outcomes(sends) == IF sends THEN BOOLEAN ELSE {TRUE}
ClosureOutcomes(d, filter) ==
  Outcomes(/\ d \in DOMAIN running
           /\ \E k \in (DOMAIN running[d].open_external_mappings) \cap filter :
                 DOMAIN running[d].open_external_mappings[k] # {})
RelayOutcomes(d, k) ==
  Outcomes(/\ d \in DOMAIN running
           /\ DOMAIN Get(running[d].open_external_mappings, k, EmptyFn) # {})
ReadyOutcomes(d, n) ==
  Outcomes(/\ d \in DOMAIN running
           /\ running[d].pending_nodes \subseteq {n}
           /\ running[d].external_nodes # {})
DropOutcomes(d, owner) ==
  Outcomes(d \in DOMAIN running /\ owner \in running[d].drop_channels)
FinOutcomes(d, n) ==
  Outcomes(d \in DOMAIN running /\ running[d].running_nodes \subseteq {n})
OutputsOf(n) == {<<n, o>> : o \in DataIds}
\* a Spawn for an id that is already running is rejected whatever it carries
Submitted(d) == IF d \in DOMAIN running THEN {DescLocal} ELSE Descriptors
FailAt(d, desc) == IF d \in DOMAIN running THEN {0} ELSE {0} \cup LocalIndexes(desc)

Next ==
  \/ \E d \in SpawnIds : \E desc \in Submitted(d) :
       \E fail_at \in FailAt(d, desc) : Spawn(d, desc, fail_at)
  \/ \E d \in DataflowIds : AllNodesReady(d)
  \/ \E d \in DataflowIds, n \in LocalNodes :
       \E gone \in Gone(d, {<<n, "">>}) : ReloadDataflow(d, n, gone)
  \/ \E d \in DataflowIds : StopDataflow(d)
  \/ Destroy
  \/ Watchdog
  \/ \E d \in DataflowIds, k \in RelayedOutputs, data \in RelayData :
       \E gone \in Gone(d, Receivers(d, k)) : Output(d, k[1], k[2], data, gone)
  \/ \E d \in DataflowIds, inputs \in ClosedInputSets : InputsClosed(d, inputs)
  \/ \E d \in SpawnIds, n \in spawned :
       \E tcp_ok \in ReadyOutcomes(d, n) : Subscribe(d, n, tcp_ok)
  \/ \E d \in SpawnIds, n \in spawned, outputs \in (SUBSET NodeOutputs) \ {{}} :
       \E order \in OrdersFor(d, {<<n, o>> : o \in outputs}) :
         \E tcp_ok \in ClosureOutcomes(d, {<<n, o>> : o \in outputs}) :
           CloseOutputs(d, n, outputs, order, tcp_ok)
  \/ \E d \in SpawnIds, n \in spawned :
       \E order \in OrdersFor(d, OutputsOf(n)) :
         \E tcp_ok \in ClosureOutcomes(d, OutputsOf(n)) :
           OutputsDone(d, n, order, tcp_ok)
  \/ \E d \in SpawnIds, n \in spawned, o \in NodeOutputs, data \in InlineData :
       \E gone \in Gone(d, Receivers(d, <<n, o>>)) :
         \E tcp_ok \in RelayOutcomes(d, <<n, o>>) :
           SendOut(d, n, o, data, gone, TRUE, TRUE, tcp_ok)
  \/ \E d \in SpawnIds, n \in spawned : EventStreamDropped(d, n)
  \/ \E d \in SpawnIds, interval \in {1} :
       \E gone \in Gone(d, Ticked(d, interval)) : TimerTick(d, interval, gone)
  \/ \E d \in SpawnIds, n \in spawned, exit_status \in ExitStatuses :
       \E order \in OrdersFor(d, OutputsOf(n)) :
         \E tcp_ok \in ClosureOutcomes(d, OutputsOf(n)), fin_ok \in FinOutcomes(d, n) :
           SpawnedNodeResult(d, n, exit_status, order, tcp_ok, fin_ok)
  \/ \E ok \in {<<TRUE, TRUE>>, <<TRUE, FALSE>>, <<FALSE, FALSE>>} :
       WatchdogInterval(ok[1], ok[2])
  \/ CtrlC
  \/ \E m \in {"m2", "m3"} : PeerReady(m)

Spec == Init /\ [][Next]_vars

\* The drop-token protocol on its own: the output x of a fans out to the
\* consumers b and c; a publishes shared-memory payloads on it, the consumers
\* report them; with every event that touches the pending tokens, the drop
\* channels or the subscriber channels.
Consumers == {"b", "c"}
Producer == "a"
NextDrop ==
  \/ \E d \in SpawnIds : Spawn(d, DescFan, 0)
  \/ \E d \in SpawnIds, n \in spawned : Subscribe(d, n, TRUE)
  \/ \E d \in SpawnIds, n \in spawned \ Consumers : SubscribeDrop(d, n)
  \/ \E d \in SpawnIds, n \in spawned \ Consumers, data \in SharedData :
       \E gone \in Gone(d, Receivers(d, <<n, "x">>)), shm_ok \in BOOLEAN :
         \E drop_ok \in DropOutcomes(d, n) :
           SendOut(d, n, "x", data, gone, shm_ok, drop_ok, TRUE)
  \/ \E d \in SpawnIds, n \in spawned \cap Consumers, t \in Tokens :
       \E drop_ok \in DropOutcomes(d, Producer) : ReportDrop(d, n, <<t>>, drop_ok)
  \/ \E d \in SpawnIds, n \in spawned \ Consumers : OutputsDone(d, n, <<>>, TRUE)
  \/ \E d \in SpawnIds, n \in spawned \cap Consumers : EventStreamDropped(d, n)
  \/ \E d \in SpawnIds, n \in spawned, exit_status \in ExitStatuses :
       \E fin_ok \in FinOutcomes(d, n) :
         SpawnedNodeResult(d, n, exit_status, <<>>, TRUE, fin_ok)

SpecDrop == Init /\ [][NextDrop]_vars

\* The outputs of the nodes on their own: the dataflow is spawned, its nodes
\* subscribe, send inline and shared-memory outputs to local and remote
\* receivers and close outputs.
NextSend ==
  \/ \E d \in SpawnIds, desc \in Descriptors : Spawn(d, desc, 0)
  \/ \E d \in SpawnIds, n \in spawned :
       \E tcp_ok \in ReadyOutcomes(d, n) : Subscribe(d, n, tcp_ok)
  \/ \E d \in SpawnIds, n \in spawned \cap {Producer} : SubscribeDrop(d, n)
  \/ \E d \in SpawnIds, n \in spawned, o \in NodeOutputs,
        data \in InlineData \cup SharedData :
       \E gone \in Gone(d, Receivers(d, <<n, o>>)) :
         \E shm_ok \in Outcomes(data.kind = "Shmem"), drop_ok \in DropOutcomes(d, n) :
           \E tcp_ok \in RelayOutcomes(d, <<n, o>>) :
             SendOut(d, n, o, data, gone, shm_ok, drop_ok, tcp_ok)
  \/ \E d \in SpawnIds, n \in spawned, o \in NodeOutputs :
       \E order \in OrdersFor(d, {<<n, o>>}) :
         \E tcp_ok \in ClosureOutcomes(d, {<<n, o>>}) :
           CloseOutputs(d, n, {o}, order, tcp_ok)
  \/ \E d \in SpawnIds : AllNodesReady(d)
  \/ \E m \in {"m2", "m3"} : PeerReady(m)

SpecSend == Init /\ [][NextSend]_vars

\* One output delivered twice to one node: the dataflow is spawned, its nodes
\* subscribe, the producer publishes shared-memory outputs, the consumer
\* reports its drops, drops its event stream or exits.
NextTwin ==
  \/ \E d \in SpawnIds : Spawn(d, DescTwin, 0)
  \/ \E d \in SpawnIds, n \in spawned : Subscribe(d, n, TRUE)
  \/ \E d \in SpawnIds, n \in spawned \cap {Producer} : SubscribeDrop(d, n)
  \/ \E d \in SpawnIds, n \in spawned \cap {Producer}, data \in SharedData :
       \E gone \in Gone(d, Receivers(d, <<n, "x">>)), shm_ok \in BOOLEAN :
         \E drop_ok \in DropOutcomes(d, n) :
           SendOut(d, n, "x", data, gone, shm_ok, drop_ok, TRUE)
  \/ \E d \in SpawnIds, n \in spawned \ {Producer}, t \in Tokens :
       \E drop_ok \in DropOutcomes(d, Producer) : ReportDrop(d, n, <<t>>, drop_ok)
  \/ \E d \in SpawnIds, n \in spawned \ {Producer} : EventStreamDropped(d, n)
  \/ \E d \in SpawnIds, n \in spawned, exit_status \in ExitStatuses :
       \E fin_ok \in FinOutcomes(d, n) :
         SpawnedNodeResult(d, n, exit_status, <<>>, TRUE, fin_ok)

SpecTwin == Init /\ [][NextTwin]_vars

\* The start of a dataflow whose nodes are all local: the dataflow is spawned
\* and each node either sends its Subscribe request, on whose reply it then
\* waits, or exits; a node that has its reply subscribes to its drop events,
\* sends outputs, reports drops or drops its event stream, and the timers tick.  A node that was spawned and stays alive sends
\* its Subscribe in the end.
Waiting(d, n) == d \in DOMAIN running /\ n \in running[d].pending_nodes /\ n \notin reaped
GotReply(d, n) ==
  /\ d \in DOMAIN running
  /\ n \in spawned \ reaped
  /\ n \notin running[d].pending_nodes \cup running[d].subscribe_replies
FirstSubscribe(n) == \E d \in SpawnIds : Waiting(d, n) /\ Subscribe(d, n, TRUE)
NextLive ==
  \/ \E d \in SpawnIds : Spawn(d, DescTimer, 0)
  \/ \E n \in Nodes : FirstSubscribe(n)
  \/ \E d \in SpawnIds, n \in spawned, exit_status \in ExitStatuses :
       SpawnedNodeResult(d, n, exit_status, <<>>, TRUE, TRUE)
  \/ \E d \in SpawnIds, n \in LocalNodes : GotReply(d, n) /\ SubscribeDrop(d, n)
  \/ \E d \in SpawnIds, n \in LocalNodes, data \in InlineData \cup SharedData :
       \E gone \in Gone(d, Receivers(d, <<n, "x">>)), drop_ok \in DropOutcomes(d, n) :
         GotReply(d, n) /\ SendOut(d, n, "x", data, gone, TRUE, drop_ok, TRUE)
  \/ \E d \in SpawnIds, n \in LocalNodes, t \in Tokens :
       \E drop_ok \in DropOutcomes(d, Producer) :
         GotReply(d, n) /\ ReportDrop(d, n, <<t>>, drop_ok)
  \/ \E d \in SpawnIds, n \in LocalNodes : GotReply(d, n) /\ EventStreamDropped(d, n)
  \/ \E d \in SpawnIds, interval \in hist.launched :
       \E gone \in Gone(d, Ticked(d, interval)) : TimerTick(d, interval, gone)

SpecLive == Init /\ [][NextLive]_vars /\ \A n \in Nodes : WF_vars(FirstSubscribe(n))

\* Stand-alone mode (run_dataflow): no coordinator; the daemon is built to
\* wait for every node of the descriptor, the only coordinator event is the
\* Spawn of the descriptor, and the call joins the loop with the spawn result.
StandaloneDescriptors == {DescLocal, DescRemote, DescFan, DescTimer}
NodeIds(desc) == {desc[k].id : k \in 1..Len(desc)}
StandaloneId == "d1"
SpawnFailed == "spawn failed"
InitStandalone ==
  \E desc \in StandaloneDescriptors :
    InitWith([NoHist EXCEPT !.verbose = TRUE],
             Some({<<StandaloneId, n>> : n \in NodeIds(desc)}))

\* the Spawn event of stream::once and what future::try_join makes of its
\* reply: a SpawnResult(Err) ends run_dataflow with the error
StandaloneSpawn(desc, fail_at) ==
  /\ status = "running"
  /\ spawn_seen = {}
  /\ exit_when_done = Some({<<StandaloneId, n>> : n \in NodeIds(desc)})
  /\ LET res == spawn_dataflow(StandaloneId, desc, fail_at)
     IN /\ status' = IF res.ok THEN "running" ELSE "error"
        /\ failure' = IF res.ok THEN "" ELSE SpawnFailed
        /\ running' = IF res.ok THEN Put(running, StandaloneId, res.df) ELSE EmptyFn
        /\ emitted' = Emitted(<<CReply("SpawnResult", IF res.ok THEN "Ok" ELSE "Err")>>)
        /\ io_failed' = FALSE
        /\ spawned' = spawned \cup res.started
        /\ spawn_seen' = {StandaloneId}
        /\ spawn_ok' = IF res.ok THEN {StandaloneId} ELSE {}
        /\ UNCHANGED <<coord, reaped, next_token, hist, Modes>>

\* run_dataflow's result once the loop has ended
RunResult ==
  IF status = "error" THEN "Err"
  ELSE IF dataflow_errors = <<>> THEN "Ok" ELSE "SomeNodesFailed"

NextStandalone ==
  \/ \E desc \in StandaloneDescriptors :
       \E fail_at \in {0} \cup LocalIndexes(desc) : StandaloneSpawn(desc, fail_at)
  \/ \E n \in spawned : \E tcp_ok \in ReadyOutcomes(StandaloneId, n) :
       Subscribe(StandaloneId, n, tcp_ok)
  \/ \E n \in spawned, o \in NodeOutputs, data \in InlineData \cup SharedData :
       \E gone \in Gone(StandaloneId, Receivers(StandaloneId, <<n, o>>)) :
         \E shm_ok \in Outcomes(data.kind = "Shmem") :
           \E tcp_ok \in RelayOutcomes(StandaloneId, <<n, o>>) :
             SendOut(StandaloneId, n, o, data, gone, shm_ok, TRUE, tcp_ok)
  \/ \E interval \in {1} : \E gone \in Gone(StandaloneId, Ticked(StandaloneId, interval)) :
       TimerTick(StandaloneId, interval, gone)
  \/ \E n \in spawned, exit_status \in ExitStatuses :
       \E order \in OrdersFor(StandaloneId, OutputsOf(n)) :
         \E tcp_ok \in ClosureOutcomes(StandaloneId, OutputsOf(n)) :
           \E fin_ok \in FinOutcomes(StandaloneId, n) :
             SpawnedNodeResult(StandaloneId, n, exit_status, order, tcp_ok, fin_ok)
  \/ WatchdogInterval(TRUE, TRUE)

SpecStandalone == InitStandalone /\ [][NextStandalone]_vars

\* The coordinator's push events and their replies, with the node events that
\* bring a dataflow to its start and to its end.
PushSpawn == \E d \in SpawnIds : \E desc \in Submitted(d) :
               \E fail_at \in FailAt(d, desc) : Spawn(d, desc, fail_at)
PushAllNodesReady == \E d \in DataflowIds : AllNodesReady(d)
PushReload == \E d \in DataflowIds, n \in LocalNodes :
                \E gone \in Gone(d, {<<n, "">>}) : ReloadDataflow(d, n, gone)
PushStop == \E d \in DataflowIds : StopDataflow(d)
PushOutput == \E d \in DataflowIds, k \in RelayedOutputs, data \in RelayData :
                \E gone \in Gone(d, Receivers(d, k)) : Output(d, k[1], k[2], data, gone)
PushInputsClosed == \E d \in DataflowIds, inputs \in ClosedInputSets : InputsClosed(d, inputs)

InitPush == InitWith([NoHist EXCEPT !.verbose = TRUE], None)
NextPush ==
  \/ PushSpawn
  \/ PushAllNodesReady
  \/ PushReload
  \/ PushStop
  \/ Destroy
  \/ Watchdog
  \/ PushOutput
  \/ PushInputsClosed
  \/ \E d \in SpawnIds, n \in spawned :
       \E tcp_ok \in ReadyOutcomes(d, n) : Subscribe(d, n, tcp_ok)
  \/ \E d \in SpawnIds, n \in spawned, exit_status \in ExitStatuses :
       \E order \in OrdersFor(d, OutputsOf(n)) :
         \E tcp_ok \in ClosureOutcomes(d, OutputsOf(n)), fin_ok \in FinOutcomes(d, n) :
           SpawnedNodeResult(d, n, exit_status, order, tcp_ok, fin_ok)
  \/ \E m \in {"m2", "m3"} : PeerReady(m)

SpecPush == InitPush /\ [][NextPush]_vars

(***************************************************************************)
(* The coordinator's spawn_dataflow (binaries/coordinator/src/run/mod.rs): *)
(* it sends the Spawn to the machines of the dataflow in the order of the  *)
(* BTreeSet and waits for the reply of each.  `log` holds the frames it    *)
(* sent and the replies it read, in order.                                 *)
(***************************************************************************)
MachineOrder == <<"m1", "m2", "m3">>
AllMachines == {MachineOrder[k] : k \in 1..Len(MachineOrder)}
RECURSIVE SortMachines(_)
SortMachines(S) ==
  IF S = {} THEN <<>>
  ELSE LET m == CHOOSE x \in S : \A y \in S : Rank(MachineOrder, x) <= Rank(MachineOrder, y)
       IN <<m>> \o SortMachines(S \ {m})
Msg(m, kind) == [to |-> m, kind |-> kind]
\* what tcp_receive and the match on the reply can yield: SpawnResult(Ok),
\* SpawnResult(Err), another reply variant, a transport or parse failure
SpawnReplies == {"Ok", "Err", "Unexpected", "Failed"}

\* spawn_dataflow returns: Err through a `?`, or Ok(SpawnedDataflow)
Returned(sub, result) == [sub EXCEPT !.pc = "done", !.result = result]

\* spawn_dataflow_on_machine up to the tcp_send of the Spawn message
spawn_dataflow_on_machine(sub, send_ok) ==
  LET machine == Head(sub.todo)
  IN IF machine \notin sub.connections THEN Returned(sub, "Err")
     ELSE IF ~send_ok THEN Returned(sub, "Err")
     ELSE [sub EXCEPT !.pc = "receive", !.log = Append(@, Msg(machine, "Spawn"))]

\* the spawn loop going on to the next machine whatever the reply was
spawn_reply_unchecked(sub, reply) ==
  LET read == [sub EXCEPT !.log = Append(@, Msg(Head(sub.todo), reply)),
                          !.todo = Tail(@)]
  IN IF read.todo = <<>> THEN Returned(read, "Ok") ELSE [read EXCEPT !.pc = "send"]

\* spawn_dataflow_on_machine from the tcp_receive on, and the `?` of the loop
spawn_reply(sub, reply) ==
  LET read == [sub EXCEPT !.log = Append(@, Msg(Head(sub.todo), reply))]
  IN IF reply # "Ok" THEN Returned(read, "Err")
     ELSE IF Tail(read.todo) = <<>> THEN Returned([read EXCEPT !.todo = <<>>], "Ok")
     ELSE [read EXCEPT !.todo = Tail(@), !.pc = "send"]

\* a dataflow whose nodes are deployed on `machines` is submitted while the
\* daemons of `connections` are registered
Submit(machines, connections) ==
  /\ submission.pc = "idle"
  /\ submission' = [NoSubmission EXCEPT !.pc = "send", !.machines = machines,
                                        !.connections = connections,
                                        !.todo = SortMachines(machines)]
  /\ UNCHANGED <<status, failure, running, emitted, io_failed, spawned, reaped,
                 spawn_ok, spawn_seen, coord, next_token, hist, exit_when_done,
                 dataflow_errors>>

SpawnOnMachine(send_ok) ==
  /\ submission.pc = "send"
  /\ submission' = spawn_dataflow_on_machine(submission, send_ok)
  /\ UNCHANGED <<status, failure, running, emitted, io_failed, spawned, reaped,
                 spawn_ok, spawn_seen, coord, next_token, hist, exit_when_done,
                 dataflow_errors>>

SpawnReply(reply) ==
  /\ submission.pc = "receive"
  /\ submission' = spawn_reply(submission, reply)
  /\ UNCHANGED <<status, failure, running, emitted, io_failed, spawned, reaped,
                 spawn_ok, spawn_seen, coord, next_token, hist, exit_when_done,
                 dataflow_errors>>

NextCoord ==
  \/ \E machines \in (SUBSET AllMachines) \ {{}}, connections \in SUBSET AllMachines :
       Submit(machines, connections)
  \/ \E send_ok \in BOOLEAN : SpawnOnMachine(send_ok)
  \/ \E reply \in SpawnReplies : SpawnReply(reply)

SpecCoord == Init /\ [][NextCoord]_vars

(***************************************************************************)
(* Properties.                                                             *)
(***************************************************************************)
Events(kind) ==
  {k \in 1..Len(emitted) : emitted[k].ch = "event" /\ emitted[k].kind = kind}
Replied == {k \in 1..Len(emitted) : emitted[k].kind = "SubscribeReply"}
Framed(kind) ==
  {k \in 1..Len(emitted) : emitted[k].ch = "coord" /\ emitted[k].kind = kind}
Channels(d) == running[d].subscribe_channels

\* C1: every Input event pushed to a receiver r names an input that is in
\* open_inputs[r] when it is pushed (no Input for an input already closed).
C1_InputOnlyForOpenInput ==
  \A d \in DOMAIN running : \A k \in Events("Input") :
    emitted[k].id \in open_inputs(running[d], emitted[k].to)

\* C2: no receiver is sent InputClosed twice for one input, AllInputsClosed
\* twice, or an InputClosed after its AllInputsClosed.
C2_ClosuresSentOnce ==
  \A d \in DOMAIN running : \A r \in DOMAIN Channels(d) :
    /\ ~Channels(d)[r].ic_twice
    /\ ~Channels(d)[r].aic_twice
    /\ ~Channels(d)[r].ic_after_aic

\* C3: once a Stop has been pushed onto a subscriber channel, nothing else is
\* pushed onto it.
C3_StopIsLast ==
  \A d \in DOMAIN running : \A r \in DOMAIN Channels(d) : ~Channels(d)[r].after_stop

Published == DOMAIN hist.tokens
Pending(t) ==
  \E d \in DOMAIN running : t \in DOMAIN running[d].pending_drop_tokens

\* C4 as claimed: for every published token whose owner had subscribed to drop
\* events and kept the receiving end of its drop channel, once every consumer
\* that accepted the message has reported it, exactly one OutputDropped has
\* been delivered to the owner, and none before.
C4_ExactlyOneOutputDropped ==
  \A t \in Published :
    /\ hist.tokens[t].delivered > 0 =>
         hist.tokens[t].accepted \subseteq hist.tokens[t].reported
    /\ ( /\ status = "running"
         /\ hist.tokens[t].subscribed
         /\ ~hist.tokens[t].failed
         /\ hist.tokens[t].accepted \subseteq hist.tokens[t].reported )
       => hist.tokens[t].delivered = 1

Released(ch) == {k \in 1..Len(emitted) : emitted[k].ch = ch}

\* C4 amended: a published token is released exactly once, in the step that
\* leaves no accepting consumer unreported; the release delivers one
\* OutputDropped to the owner if the owner has a drop channel then and the
\* send into it succeeds, and otherwise only logs a warning; a token still
\* pending has released nothing.
C4_ReleasedOnceAfterReports ==
  /\ \A t \in Published :
       /\ hist.tokens[t].delivered + hist.tokens[t].undelivered <= 1
       /\ hist.tokens[t].delivered + hist.tokens[t].undelivered = 1 =>
            /\ hist.tokens[t].accepted \subseteq hist.tokens[t].reported
            /\ ~Pending(t)
       /\ ( /\ status = "running"
            /\ hist.tokens[t].accepted \subseteq hist.tokens[t].reported )
          => hist.tokens[t].delivered + hist.tokens[t].undelivered = 1
       /\ Pending(t) =>
            \E d \in DOMAIN running :
              running[d].pending_drop_tokens[t].pending_nodes =
                hist.tokens[t].accepted \ hist.tokens[t].reported
  /\ \A d \in DOMAIN running :
       /\ \A k \in Released("drop") :
            /\ emitted[k].to = hist.tokens[emitted[k].tok].owner
            /\ emitted[k].to \in running[d].drop_channels
       /\ \A k \in Released("warn") :
            /\ emitted[k].to = hist.tokens[emitted[k].tok].owner
            /\ emitted[k].kind = "NoDropChannel" <=>
                 emitted[k].to \notin running[d].drop_channels

\* both consumers accepted the payload and reported it, and the owner was told
C4_Witness ==
  \E t \in Published :
    /\ hist.tokens[t].accepted = Consumers
    /\ hist.tokens[t].reported = Consumers
    /\ hist.tokens[t].delivered = 1
    /\ \E k \in 1..Len(emitted) : emitted[k].ch = "drop" /\ emitted[k].tok = t

\* C5: a Subscribe reply is sent only while no local node of the dataflow is
\* left in pending_nodes, and the step that sends one sends every held reply.
C5_RepliesHeldUntilStart ==
  \A d \in DOMAIN running :
    Replied # {} =>
      /\ running[d].pending_nodes = {}
      /\ running[d].subscribe_replies = {}

\* the replies of both local nodes are released in one step
C5_Witness ==
  /\ \E d \in DOMAIN running : running[d].external_nodes = {}
  /\ {emitted[k].to : k \in Replied} = LocalNodes

\* C6: for a dataflow with external nodes, Event(AllNodesReady) is sent only
\* with pending_nodes empty, and a Subscribe reply is released or a timer
\* emitter started only after the coordinator's AllNodesReady push was
\* handled, which the coordinator sends once every machine has reported.
C6_BarrierAcrossDaemons ==
  \A d \in DOMAIN running :
    running[d].external_nodes # {} =>
      /\ Framed("AllNodesReady") # {} => running[d].pending_nodes = {}
      /\ (Replied # {} \/ running[d].timer_handles # <<>>) =>
           /\ hist.ready_received
           /\ coord.ready = coord.machines

\* the nodes of a dataflow with external nodes are released and its timer started
C6_Witness ==
  \E d \in DOMAIN running :
    /\ running[d].external_nodes # {}
    /\ {emitted[k].to : k \in Replied} = LocalNodes
    /\ running[d].timer_handles # <<>>
    /\ coord.ready = {"m1", "m2", "m3"}

\* C7: for a dataflow whose Spawn was answered Ok, AllNodesFinished is sent at
\* most once, only when every local node has exited and in the step that
\* forgets the dataflow, and it has been sent once every exit was handled.
C7_AllNodesFinishedOnce ==
  /\ hist.finished <= 1
  /\ \A d \in spawn_ok :
       /\ hist.finished = 1 => spawned \subseteq reaped
       /\ Framed("AllNodesFinished") # {} => d \notin DOMAIN running
       /\ d \in DOMAIN running =>
            hist.finished = 0 /\ running[d].running_nodes # {}
       /\ (status = "running" /\ spawned \subseteq reaped) => hist.finished = 1

\* both local nodes have exited and the finish has just been reported
C7_Witness ==
  /\ spawn_ok # {}
  /\ reaped = LocalNodes
  /\ status = "running"
  /\ Framed("AllNodesFinished") # {}
  /\ hist.finished = 1

\* C8: once the exit of a local node n has been handled, n is not in
\* running_nodes, every local input mapped from an output of n is closed, and
\* each receiver that has a channel holds the InputClosed of that input and,
\* if no input of it is open, the AllInputsClosed, pushed after the InputClosed.
C8_ExitClosesDownstream ==
  /\ \A d \in DOMAIN running : \A n \in reaped :
       /\ n \notin running[d].running_nodes
       /\ \A k \in DOMAIN running[d].mappings : \A p \in running[d].mappings[k] :
            k[1] = n =>
              /\ p[2] \notin open_inputs(running[d], p[1])
              /\ p[1] \in DOMAIN Channels(d) =>
                   /\ p[2] \in Channels(d)[p[1]].closed
                   /\ open_inputs(running[d], p[1]) = {} =>
                        Channels(d)[p[1]].all_closed
  /\ \A j \in Events("AllInputsClosed"), k \in Events("InputClosed") :
       emitted[j].to = emitted[k].to => k < j

\* the exit of a has just closed both inputs of the subscribed b
C8_Witness ==
  \E d \in DOMAIN running :
    /\ "a" \in reaped
    /\ "b" \in DOMAIN Channels(d)
    /\ {emitted[k].id : k \in Events("InputClosed")} = {"in1", "in2"}
    /\ Events("AllInputsClosed") # {}
    /\ Channels(d)["b"].all_closed

\* C9: an event that names a dataflow the daemon does not have never ends the
\* event loop: run_inner never returns the "no running dataflow" error.
C9_UnknownDataflowSkipped == failure # NoDataflow

\* C10: a failed send to, or receive from, the coordinator ends the event loop
\* with an error.
C10_CoordinatorFailureIsFatal == io_failed => status = "error"

\* C11: every frame the daemon sends on its request connection is followed,
\* in the same handler, by the read of one reply frame (while the loop goes on).
C11_EveryFrameAcknowledged ==
  status = "running" =>
    \A k \in 1..Len(emitted) :
      emitted[k].ch = "coord" =>
        k < Len(emitted) /\ emitted[k + 1].ch = "ack"

Log == submission.log
Answered(kind) == {Log[k].to : k \in {j \in 1..Len(Log) : Log[j].kind = kind}}

\* C12: once a submission has failed, every daemon that had answered
\* SpawnResult(Ok) has been sent a Stop for the dataflow.
C12_FailedSpawnIsCompensated ==
  submission.result = "Err" => Answered("Ok") \subseteq Answered("Stop")

\* C13: the Spawn goes to the machines one at a time in the order of the set,
\* each after the SpawnResult(Ok) of the one before; the first machine that
\* fails ends the call with an error, and the call returns Ok only with a
\* SpawnResult(Ok) of every machine.
C13_SpawnOneAtATime ==
  LET order == SortMachines(submission.machines)
  IN /\ \A k \in 1..Len(Log) :
          IF k % 2 = 1
          THEN /\ Log[k].kind = "Spawn"
               /\ (k + 1) \div 2 <= Len(order)
               /\ Log[k].to = order[(k + 1) \div 2]
               /\ Log[k].to \in submission.connections
          ELSE /\ Log[k].kind \in SpawnReplies
               /\ Log[k].to = Log[k - 1].to
               /\ k < Len(Log) => Log[k].kind = "Ok"
     /\ submission.result # "" <=> submission.pc = "done"
     /\ submission.result = "Ok" <=>
          (submission.pc = "done" /\ Answered("Ok") = submission.machines)
     /\ submission.result = "Err" =>
          \/ Len(Log) % 2 = 0 /\ Len(Log) > 0 /\ Log[Len(Log)].kind # "Ok"
          \/ Len(Log) % 2 = 0 /\ Len(Log) < 2 * Len(order)

\* the Spawn of a dataflow on three machines was answered Ok by each in turn
C13_Witness ==
  /\ submission.result = "Ok"
  /\ submission.machines = AllMachines
  /\ Len(Log) = 6

CReplies == {k \in 1..Len(emitted) : emitted[k].ch = "creply"}
OneReply(kind) ==
  /\ Cardinality(CReplies') = 1
  /\ \A k \in CReplies' : emitted'[k].kind = kind /\ emitted'[k].id \in {"Ok", "Err"}

\* C14: the handling of a Spawn, ReloadDataflow, StopDataflow, Destroy or
\* Watchdog push produces exactly one reply, of the matching variant, whether
\* the handler succeeded or not; the handling of an AllNodesReady, Output or
\* InputsClosed push, and of any other event of the daemon, produces none.
C14_OneReplyPerPush ==
  [][ /\ PushSpawn => OneReply("SpawnResult")
      /\ PushReload => OneReply("ReloadResult")
      /\ PushStop => OneReply("StopResult")
      /\ Destroy => OneReply("DestroyResult")
      /\ Watchdog => OneReply("WatchdogAck")
      /\ (PushAllNodesReady \/ PushOutput \/ PushInputsClosed) => CReplies' = {}
      /\ (CReplies' # {} /\ ~(\E m \in {"m2", "m3"} : PeerReady(m))) =>
           (PushSpawn \/ PushReload \/ PushStop \/ Destroy \/ Watchdog) ]_vars

\* a StopDataflow for a dataflow the daemon does not have was answered
\* StopResult(Err) and the loop goes on
C14_Witness ==
  /\ status = "running"
  /\ running = EmptyFn
  /\ spawn_ok # {}
  /\ \E k \in CReplies : emitted[k].kind = "StopResult" /\ emitted[k].id = "Err"

\* C15: in every RunningDataflow, every OutputId that is a key of mappings has
\* a consumer input that is still open, and every OutputId that is a key of
\* open_external_mappings has a non-empty map of remote inputs.
C15_MappedOutputsHaveOpenInput ==
  \A d \in DOMAIN running :
    LET df == running[d]
    IN /\ \A o \in DOMAIN df.mappings :
            \E p \in df.mappings[o] : p[2] \in open_inputs(df, p[1])
       /\ \A o \in DOMAIN df.open_external_mappings :
            DOMAIN df.open_external_mappings[o] # {}

\* C16: between events, every RunningDataflow of the daemon's map has a local
\* node that has not exited yet (its running_nodes is not empty), also after a
\* Spawn that failed part-way.
C16_RunningHasLiveNode ==
  \A d \in DOMAIN running : running[d].running_nodes # {}

Waited == {p[2] : p \in exit_when_done[1]}
Failed == {dataflow_errors[k][2] : k \in 1..Len(dataflow_errors)}
ExitLogged(st) == \E k \in 1..Len(emitted) : emitted[k].ch = "log" /\ emitted[k].id = st

\* C17 (as stated): in stand-alone mode the event loop ends only when a
\* SpawnedNodeResult has been processed for every node of the descriptor.
C17_EndsOnlyWhenAllExited == status # "running" => exit_when_done = Some({})

\* C17 (amended): in stand-alone mode, as long as no handler has failed and
\* the spawn has not failed, the loop ends exactly when the set of awaited
\* nodes is empty, which holds the nodes of the descriptor less those whose
\* SpawnedNodeResult was processed; each processed exit appends one entry for
\* the node to the error list if its status was not Success and leaves the
\* list alone otherwise, so that the run succeeds iff every node succeeded.
\* A handler error or a failed spawn ends the run with that error.
C17_StandaloneRun ==
  /\ [](status # "error" =>
          /\ status = "exit" <=> exit_when_done = Some({})
          /\ Waited \cap reaped = {}
          /\ spawned \ reaped \subseteq Waited
          /\ status = "exit" => spawn_ok # {} /\ spawned \subseteq reaped
          /\ Failed \subseteq reaped
          /\ Cardinality(Failed) = Len(dataflow_errors)
          /\ RunResult = "Ok" <=> Failed = {})
  /\ [](status = "error" => RunResult = "Err" /\ failure # "")
  /\ [][(reaped' # reaped /\ status' # "error") =>
          /\ exit_when_done' = Some(exit_when_done[1] \ {<<StandaloneId, n>> : n \in reaped'})
          /\ ExitLogged("Success")' => dataflow_errors' = dataflow_errors
          /\ ~ExitLogged("Success")' =>
                \E n \in reaped' \ reaped :
                  dataflow_errors' = Append(dataflow_errors, <<StandaloneId, n>>)]_vars

\* every node of the descriptor has exited, one of them with an exit code, and
\* the run ends with the list of the failed nodes
C17_Witness ==
  /\ status = "exit"
  /\ Cardinality(reaped) = 3
  /\ Len(dataflow_errors) = 1
  /\ RunResult = "SomeNodesFailed"

\* C18: the handling of a SpawnedNodeResult with a non-Success exit status
\* for node n, when the handler returns Ok, leaves the other nodes alone: a
\* dataflow is removed only if n was its last running node, and otherwise
\* only n leaves running_nodes, pending_nodes and stop_sent are unchanged,
\* every subscriber channel is kept and none holds a new Stop, and no drop
\* channel but that of n is removed; no Stop event is sent.
C18_FailedExitSparesSiblings ==
  [][(reaped' # reaped /\ ~ExitLogged("Success")' /\ status' = "running") =>
       \E n \in reaped' \ reaped :
         /\ \A k \in 1..Len(emitted') : emitted'[k].kind # "Stop"
         /\ \A d \in DOMAIN running :
              LET df == running[d]
              IN IF d \in DOMAIN running'
                 THEN LET after == running'[d]
                      IN /\ after.running_nodes = df.running_nodes \ {n}
                         /\ after.pending_nodes = df.pending_nodes
                         /\ after.stop_sent = df.stop_sent
                         /\ DOMAIN df.subscribe_channels \subseteq
                              DOMAIN after.subscribe_channels
                         /\ \A m \in DOMAIN df.subscribe_channels :
                              after.subscribe_channels[m].stop = df.subscribe_channels[m].stop
                         /\ df.drop_channels \ {n} \subseteq after.drop_channels
                 ELSE df.running_nodes \subseteq {n}]_vars

\* node a has exited with an exit code while its sibling b, subscribed and
\* not stopped, goes on
C18_Witness ==
  /\ status = "running"
  /\ ExitLogged("ExitCode")
  /\ "a" \in reaped
  /\ "d1" \in DOMAIN running
  /\ running["d1"].running_nodes = {"b"}
  /\ "b" \in DOMAIN running["d1"].subscribe_channels
  /\ ~running["d1"].subscribe_channels["b"].stop
  /\ ~running["d1"].stop_sent

BagOfSeq(q) == [e \in {q[k] : k \in 1..Len(q)} |-> Cardinality({k \in 1..Len(q) : q[k] = e})]
SeenBy(out, r) == BagOfSeq(SelectSeq(out, LAMBDA e : e.ch = "event" /\ e.to = r))
\* the SendOut events a node of dataflow d can make on output k: inline or
\* shared-memory data with drop token tok, the mapping of the shared memory
\* and the relay to the coordinator succeeding or not
Sends(d, k, tok) ==
  {[node |-> k[1], output |-> k[2], data |-> data, shm_ok |-> shm_ok, tcp_ok |-> tcp_ok] :
     data \in InlineData \cup {[kind |-> "Shmem", token |-> tok]},
     shm_ok \in BOOLEAN, tcp_ok \in RelayOutcomes(d, k)} \
  {e \in [node : {k[1]}, output : {k[2]}, data : InlineData, shm_ok : {FALSE},
          tcp_ok : BOOLEAN] : TRUE}
Apply(w, e, gone, drop_ok) ==
  send_out(w, e.node, e.output, e.data, gone, e.shm_ok, drop_ok, e.tcp_ok)
SentOutputs == {k \in LocalNodes \X NodeOutputs : k[1] \in spawned}

\* C19: from any state of a dataflow, two SendOut events on distinct outputs
\* fail or succeed whatever their order, and when both succeed the two
\* orders leave the same RunningDataflow, push the same multiset of events
\* into every subscriber channel and send the same multiset of frames and
\* drop events.
C19_SendOutsCommute ==
  \A d \in DOMAIN running : \A k1, k2 \in SentOutputs :
    (k1 # k2 /\ PairLeq(k1, k2)) =>
      \A gone \in Gone(d, Receivers(d, k1) \cup Receivers(d, k2)) :
        \A drop_ok \in DropOutcomes(d, k1[1]) \cup DropOutcomes(d, k2[1]) :
          \A e1 \in Sends(d, k1, next_token), e2 \in Sends(d, k2, next_token + 1) :
            LET w == World(running[d])
                first1 == Apply(w, e1, gone, drop_ok)
                first2 == Apply(w, e2, gone, drop_ok)
                w12 == Apply(first1, e2, gone, drop_ok)
                w21 == Apply(first2, e1, gone, drop_ok)
            IN /\ first1.err = "" => w12.err = first2.err
               /\ first2.err = "" => w21.err = first1.err
               /\ (first1.err = "" /\ first2.err = "") =>
                    /\ w12.df = w21.df
                    /\ BagOfSeq(w12.out) = BagOfSeq(w21.out)
                    /\ \A r \in Nodes : SeenBy(w12.out, r) = SeenBy(w21.out, r)

\* node b, subscribed, takes the two outputs x and y of node a, and an output
\* of a has just been delivered to it
C19_Witness ==
  /\ status = "running"
  /\ "d1" \in DOMAIN running
  /\ "b" \in DOMAIN running["d1"].subscribe_channels
  /\ \A o \in {"x", "y"} :
       /\ <<"a", o>> \in DOMAIN running["d1"].mappings
       /\ \E p \in running["d1"].mappings[<<"a", o>>] :
            p[1] = "b" /\ p[2] \in open_inputs(running["d1"], "b")
  /\ \E k \in 1..Len(emitted) :
       emitted[k].ch = "event" /\ emitted[k].kind = "Input" /\ emitted[k].to = "b"

\* C20: while a dataflow is in the daemon's map, no event adds a node to
\* open_inputs or an input to open_inputs[n]: every event leaves
\* open_inputs[n] equal to, or a subset of, what it was.
C20_OpenInputsNeverGrow ==
  [][\A d \in (DOMAIN running) \cap (DOMAIN running') :
       /\ DOMAIN running'[d].open_inputs = DOMAIN running[d].open_inputs
       /\ \A n \in DOMAIN running[d].open_inputs :
            running'[d].open_inputs[n] \subseteq running[d].open_inputs[n]]_vars

\* input in2 of the subscribed node b has just been closed and in1 is open
C20_Witness ==
  /\ status = "running"
  /\ "d1" \in DOMAIN running
  /\ "b" \in DOMAIN running["d1"].subscribe_channels
  /\ open_inputs(running["d1"], "b") = {"in1"}
  /\ \E k \in 1..Len(emitted) :
       emitted[k].ch = "event" /\ emitted[k].kind = "InputClosed" /\
       emitted[k].to = "b" /\ emitted[k].id = "in2"

\* C21: the handling of a Destroy push sends DestroyResult(Ok) and nothing
\* else, and ends the loop in that step, whatever dataflows are running; once
\* the loop has ended the daemon handles no event and sends nothing.
C21_DestroyEndsTheLoop ==
  /\ [][Destroy =>
          /\ status' = "exit"
          /\ Len(emitted') = 1
          /\ emitted'[1].ch = "creply"
          /\ emitted'[1].kind = "DestroyResult"
          /\ emitted'[1].id = "Ok"]_vars
  /\ [][status # "running" =>
          UNCHANGED <<status, failure, running, emitted, io_failed, hist, Env>>]_vars

\* the loop was left on a Destroy while nodes of a spawned dataflow were
\* still running
C21_Witness ==
  /\ status = "exit"
  /\ \E k \in CReplies : emitted[k].kind = "DestroyResult"
  /\ spawn_ok # {}
  /\ spawned \ reaped # {}

\* C22: a Spawn for a dataflow id that is in the daemon's running map is
\* answered SpawnResult(Err), starts no node process and leaves the map, with
\* the RunningDataflow of that id, as it was; the loop goes on.
C22_DuplicateSpawnRefused ==
  [][\A d \in DOMAIN running :
       (\E desc \in Submitted(d) : \E fail_at \in FailAt(d, desc) : Spawn(d, desc, fail_at)) =>
         /\ running' = running
         /\ spawned' = spawned
         /\ status' = "running"
         /\ Len(emitted') = 1
         /\ emitted'[1].ch = "creply"
         /\ emitted'[1].kind = "SpawnResult"
         /\ emitted'[1].id = "Err"]_vars

\* a second Spawn for d1, whose node b has subscribed, was refused
C22_Witness ==
  /\ status = "running"
  /\ "d1" \in spawn_ok
  /\ "d1" \in DOMAIN running
  /\ "b" \in DOMAIN running["d1"].subscribe_channels
  /\ \E k \in CReplies : emitted[k].kind = "SpawnResult" /\ emitted[k].id = "Err"

\* C23: every OutputId that is a key of open_external_mappings is an output
\* of a node deployed on this daemon's machine (a node the Spawn made pending
\* and started here).
C23_ExternalMappingsOfLocalSources ==
  \A d \in DOMAIN running :
    \A k \in DOMAIN running[d].open_external_mappings :
      k[1] \in spawned \cup running[d].pending_nodes

\* C24: however often start has run for a dataflow, the dataflow holds one
\* timer emitter per distinct interval.
C24_OneEmitterPerInterval ==
  \A d \in DOMAIN running :
    LET handles == running[d].timer_handles
    IN \A i, j \in 1..Len(handles) : i # j => handles[i] # handles[j]

\* C25: close_input(receiver, input) changes nothing and pushes no event when
\* the input is not in open_inputs[receiver], whether the receiver has an
\* open_inputs entry or not.
C25_CloseInputOfClosedInput ==
  \A d \in DOMAIN running : \A receiver_id \in LocalNodes : \A input_id \in {"in1", "in2"} :
    input_id \notin open_inputs(running[d], receiver_id) =>
      close_input(World(running[d]), receiver_id, input_id) = World(running[d])

\* the remote inputs a dataflow still has registered, as <<machine, node, input>>
RemoteInputs(df) ==
  UNION {UNION {{<<m>> \o i : i \in df.open_external_mappings[k][m]}
                : m \in DOMAIN df.open_external_mappings[k]}
         : k \in DOMAIN df.open_external_mappings}
\* the remote inputs an InputsClosed frame reports
FrameInputs(data) == UNION {{<<m>> \o i : i \in data[m]} : m \in DOMAIN data}

\* C26: a step sends at most one InputsClosed frame for a dataflow; the frame
\* holds exactly the remote inputs the step drained from open_external_mappings,
\* and a drained input never comes back, so none is reported twice.
C26_RemoteInputsReportedOnce ==
  [][\A d \in DOMAIN running :
       LET before == RemoteInputs(running[d])
           after == IF d \in DOMAIN running' THEN RemoteInputs(running'[d]) ELSE {}
           frames == {k \in 1..Len(emitted') :
                        /\ emitted'[k].ch = "coord" /\ emitted'[k].kind = "InputsClosed"
                        /\ emitted'[k].id = d}
       IN /\ Cardinality(frames) <= 1
          /\ after \subseteq before
          /\ \A k \in frames : FrameInputs(emitted'[k].data) = before \ after]_vars

\* the machines that still have a remote input registered for output k
Undrained(df, k) ==
  {m \in DOMAIN Get(df.open_external_mappings, k, EmptyFn) :
     df.open_external_mappings[k][m] # {}}
OutputFrames(out) == {j \in 1..Len(out) : out[j].ch = "coord" /\ out[j].kind = "Output"}

\* C27: from any state of a dataflow, a SendOut on output (n, o) sends at most
\* one Output frame; a frame is sent only if some machine still has an
\* undrained remote input for (n, o), it names (n, o) and exactly those
\* machines, and it is sent whenever there is such a machine and the handler
\* does not fail; a drained output relays nothing.
C27_RelayToUndrainedMachines ==
  \A d \in DOMAIN running : \A k \in SentOutputs :
    \A gone \in Gone(d, Receivers(d, k)) : \A drop_ok \in DropOutcomes(d, k[1]) :
      \A e \in Sends(d, k, next_token) :
        LET w == Apply(World(running[d]), e, gone, drop_ok)
            targets == Undrained(running[d], k)
            frames == OutputFrames(w.out)
        IN /\ Cardinality(frames) <= 1
           /\ \A j \in frames : /\ targets # {}
                                /\ w.out[j].to = k[1] /\ w.out[j].id = k[2]
                                /\ w.out[j].data = targets
           /\ (targets # {} /\ w.err = "") => frames # {}

\* output y of node a has been closed and its remote inputs drained, and a
\* SendOut of a on output x has just been relayed to machine m2
C27_Witness ==
  /\ status = "running"
  /\ "d1" \in DOMAIN running
  /\ <<"a", "y">> \in DOMAIN running["d1"].open_external_mappings
  /\ Undrained(running["d1"], <<"a", "y">>) = {}
  /\ \E j \in OutputFrames(emitted) :
       emitted[j].to = "a" /\ emitted[j].id = "x" /\ emitted[j].data = {"m2"}

\* the local receivers of output k that take a message sent now: those with a
\* subscriber channel whose receiving end has not gone
Accepting(d, k, gone) ==
  ({p[1] : p \in Receivers(d, k)} \cap DOMAIN running[d].subscribe_channels) \ gone
Dropped(out, owner, token) ==
  {j \in 1..Len(out) : out[j] = Ev("drop", owner, "OutputDropped", "", token)}
Warned(out, token) == {j \in 1..Len(out) : out[j].ch = "warn" /\ out[j].tok = token}
FreshData == [kind |-> "Shmem", token |-> next_token]

\* C28 (as stated): a shared-memory SendOut that no local receiver accepts,
\* handled without failure, leaves its token out of pending_drop_tokens and
\* pushes OutputDropped{token} to the owner's drop channel.
C28_ReleasedToOwnerAtOnce ==
  \A d \in DOMAIN running : \A k \in SentOutputs :
    \A gone \in Gone(d, Receivers(d, k)) :
      (next_token <= MaxTokens /\ Accepting(d, k, gone) = {}) =>
        LET w == send_output_to_local_receivers(World(running[d]), k[1], k[2], FreshData,
                                                gone, TRUE, TRUE)
        IN /\ next_token \notin DOMAIN w.df.pending_drop_tokens
           /\ Dropped(w.out, k[1], next_token) # {}

\* C28 (amended): such a SendOut never leaves its token in pending_drop_tokens.
\* If the shared memory cannot be mapped the handler fails before the token is
\* registered and nothing is pushed.  Otherwise the token is released in the
\* same step: exactly one OutputDropped{token} goes to the owner's drop channel
\* if the owner has one and the send into it succeeds, and if not the release
\* is only logged and no OutputDropped is pushed.
C28_ReleasedAtOnce ==
  \A d \in DOMAIN running : \A k \in SentOutputs :
    \A gone \in Gone(d, Receivers(d, k)) : \A shm_ok \in BOOLEAN :
      \A drop_ok \in DropOutcomes(d, k[1]) :
        (next_token <= MaxTokens /\ Accepting(d, k, gone) = {}) =>
          LET w == send_output_to_local_receivers(World(running[d]), k[1], k[2], FreshData,
                                                  gone, shm_ok, drop_ok)
              dropped == Dropped(w.out, k[1], next_token)
              delivered == k[1] \in running[d].drop_channels /\ drop_ok
          IN /\ next_token \notin DOMAIN w.df.pending_drop_tokens
             /\ \A j \in 1..Len(w.out) : w.out[j].ch = "drop" => j \in dropped
             /\ IF ~shm_ok
                THEN w.err # "" /\ dropped = {} /\ Warned(w.out, next_token) = {}
                ELSE /\ w.err = ""
                     /\ Cardinality(dropped) = (IF delivered THEN 1 ELSE 0)
                     /\ Cardinality(Warned(w.out, next_token)) = (IF delivered THEN 0 ELSE 1)

\* a token that no receiver accepted has just been released to its owner
C28_Witness ==
  /\ status = "running"
  /\ "d1" \in DOMAIN running
  /\ \E t \in DOMAIN hist.tokens :
       /\ hist.tokens[t].accepted = {}
       /\ t \notin DOMAIN running["d1"].pending_drop_tokens
       /\ Dropped(emitted, hist.tokens[t].owner, t) # {}

\* the inputs of node n that some output is mapped to and that are not open
ClosedUserInputs(df, n) ==
  {p[2] : p \in {q \in UNION Range(df.mappings) : q[1] = n}} \ open_inputs(df, n)
EventsTo(out, n) == SelectSeq(out, LAMBDA e : e.ch = "event" /\ e.to = n)

\* C29: a Subscribe of node n pushes to n, in this order: one InputClosed for
\* each input of n that is mapped to an output and was closed before, then
\* AllInputsClosed iff n has no open input, then Stop iff stop_sent is set; it
\* pushes nothing else to n, and afterwards n is not in pending_nodes and has
\* its channel registered.
C29_SubscribeReplay ==
  [][\A d \in DOMAIN running : \A n \in LocalNodes :
       (\E tcp_ok \in BOOLEAN : Subscribe(d, n, tcp_ok)) =>
         LET df == running[d]
             closed == ClosedUserInputs(df, n)
             nc == Cardinality(closed)
             all == open_inputs(df, n) = {}
             seen == EventsTo(emitted', n)
         IN /\ Len(seen) = nc + (IF all THEN 1 ELSE 0) + (IF df.stop_sent THEN 1 ELSE 0)
            /\ \A j \in 1..nc : seen[j].kind = "InputClosed"
            /\ {seen[j].id : j \in 1..nc} = closed
            /\ all => seen[nc + 1].kind = "AllInputsClosed"
            /\ df.stop_sent => seen[Len(seen)].kind = "Stop"
            /\ d \in DOMAIN running' =>
                 /\ n \notin running'[d].pending_nodes
                 /\ n \in DOMAIN running'[d].subscribe_channels]_vars

\* node b has just subscribed after both its inputs were closed and the
\* dataflow was stopped: InputClosed twice, AllInputsClosed, Stop
C29_Witness ==
  /\ status = "running"
  /\ "d1" \in DOMAIN running
  /\ "b" \notin running["d1"].pending_nodes
  /\ LET seen == EventsTo(emitted, "b")
     IN /\ Len(seen) = 4
        /\ {seen[1].id, seen[2].id} = {"in1", "in2"}
        /\ seen[1].kind = "InputClosed" /\ seen[2].kind = "InputClosed"
        /\ seen[3].kind = "AllInputsClosed" /\ seen[4].kind = "Stop"

StopsTo(out, n) == {j \in 1..Len(out) : out[j] = Ev("event", n, "Stop", "", NoToken)}
\* the step ran stop_all on dataflow d: every channel it held was pushed one
\* Stop, its first, and the dataflow is left without channels and stopped
StoppedAll(d) ==
  /\ d \in DOMAIN running'
  /\ running'[d].subscribe_channels = EmptyFn
  /\ running'[d].stop_sent
  /\ \A n \in DOMAIN running[d].subscribe_channels :
       /\ Cardinality(StopsTo(emitted', n)) = 1
       /\ ~running[d].subscribe_channels[n].stop
StopKeepsRunning ==
  \A d \in DataflowIds : StopDataflow(d) =>
    /\ status' = "running"
    /\ IF d \in DOMAIN running THEN StoppedAll(d)
       ELSE running' = running /\ emitted' = <<CReply("StopResult", "Err")>>
CtrlCKeepsRunning == CtrlC => status' = "running" /\ \A d \in DOMAIN running : StoppedAll(d)
StopSentLatched ==
  \A d \in DOMAIN running : (running[d].stop_sent /\ d \in DOMAIN running') =>
    running'[d].stop_sent

\* C30: a StopDataflow of a running dataflow, and a Ctrl-C for every running
\* dataflow, leave the loop running, the dataflow without subscriber channels
\* and with stop_sent set, each channel it held having received exactly one
\* Stop; stop_sent stays set while the dataflow is running; a StopDataflow for
\* an unknown id is answered StopResult(Err) and changes nothing.
C30_StopAllStopsOnce ==
  [][StopKeepsRunning /\ CtrlCKeepsRunning /\ StopSentLatched]_vars

\* the Input events carrying `token` that a handler pushed to node n
InputsWith(out, n, token) ==
  {j \in 1..Len(out) : /\ out[j].ch = "event" /\ out[j].to = n
                       /\ out[j].kind = "Input" /\ out[j].tok = token}

\* C31: from any state of a dataflow, when a SendOut with a shared-memory
\* payload delivers two Input events carrying its token to one node, the first
\* ReportDrop of that node for the token does not release it: the token stays
\* in pending_drop_tokens and no OutputDropped goes to the owner.
C31_ReleasedAfterEveryDelivery ==
  \A d \in DOMAIN running : \A k \in SentOutputs :
    \A gone \in Gone(d, Receivers(d, k)) : \A n \in LocalNodes :
      next_token <= MaxTokens =>
        LET sent == send_output_to_local_receivers(World(running[d]), k[1], k[2],
                                                   FreshData, gone, TRUE, TRUE)
            reported == ReportTokens([sent EXCEPT !.out = <<>>], n, <<next_token>>, TRUE)
        IN Cardinality(InputsWith(sent.out, n, next_token)) >= 2 =>
             /\ next_token \in DOMAIN reported.df.pending_drop_tokens
             /\ Dropped(reported.out, k[1], next_token) = {}

\* every local node of dataflow d1 has subscribed or exited
AllMoved == "d1" \in DOMAIN running /\ \A n \in running["d1"].pending_nodes : n \in reaped
NoReplyHeld == "d1" \in DOMAIN running => running["d1"].subscribe_replies = {}

\* C32: once every local node of a dataflow without external nodes has
\* subscribed or exited, the Subscribe replies the dataflow holds are
\* eventually released (or the dataflow has ended).
C32_RepliesEventuallyReleased == AllMoved ~> NoReplyHeld

\* C33: a Spawn for an id that is not running and that is answered
\* SpawnResult(Err) leaves the running map as it was, and no AllNodesFinished
\* is sent for a dataflow whose Spawn was not answered SpawnResult(Ok).
C33_FailedSpawnLeavesNothing ==
  /\ [][\A d \in DataflowIds \ DOMAIN running :
          ( /\ \E desc \in Submitted(d) : \E fail_at \in FailAt(d, desc) :
                 Spawn(d, desc, fail_at)
            /\ emitted' = <<CReply("SpawnResult", "Err")>> ) => running' = running]_vars
  /\ [][\A k \in 1..Len(emitted') :
          (emitted'[k].ch = "coord" /\ emitted'[k].kind = "AllNodesFinished") =>
            emitted'[k].id \in spawn_ok]_vars

\* C34: between events, every entry of pending_drop_tokens of every running
\* dataflow has a node in its pending_nodes: a token without a pending
\* consumer is not kept in the map.
C34_PendingTokensHavePendingNodes ==
  \A d \in DOMAIN running : \A t \in DOMAIN running[d].pending_drop_tokens :
    running[d].pending_drop_tokens[t].pending_nodes # {}

\* a token that two consumers accepted has left the map in the step that
\* handled the ReportDrop of the second one
C34_Witness ==
  /\ status = "running"
  /\ "d1" \in DOMAIN running
  /\ \E t \in DOMAIN hist.tokens :
       /\ Cardinality(hist.tokens[t].accepted) = 2
       /\ hist.tokens[t].reported = hist.tokens[t].accepted
       /\ t \notin DOMAIN running["d1"].pending_drop_tokens
       /\ \E j \in 1..Len(emitted) : emitted[j].ch \in {"drop", "warn"} /\ emitted[j].tok = t

\* C35: handling an Output push of the coordinator for output k pushes only
\* Input events, each to a local receiver of k, and sends nothing else (no
\* frame to the coordinator, no reply); it leaves the loop running, and leaves
\* open_inputs, mappings, open_external_mappings and pending_drop_tokens of
\* the dataflow, and every other dataflow, as they were.
C35_RelayedOutputStaysLocal ==
  [][\A d \in DataflowIds : \A k \in RelayedOutputs : \A data \in RelayData :
       (\E gone \in Gone(d, Receivers(d, k)) : Output(d, k[1], k[2], data, gone)) =>
         /\ status' = "running"
         /\ \A j \in 1..Len(emitted') :
              /\ emitted'[j].ch = "event" /\ emitted'[j].kind = "Input"
              /\ <<emitted'[j].to, emitted'[j].id>> \in Receivers(d, k)
         /\ DOMAIN running' = DOMAIN running
         /\ \A x \in DOMAIN running :
              /\ running'[x].open_inputs = running[x].open_inputs
              /\ running'[x].mappings = running[x].mappings
              /\ running'[x].open_external_mappings = running[x].open_external_mappings
              /\ running'[x].pending_drop_tokens = running[x].pending_drop_tokens
              /\ x # d => running'[x] = running[x]]_vars

\* an output of the local node a that machine m2 still takes has come back
\* from the coordinator and has just been delivered to the local receiver b
C35_Witness ==
  /\ status = "running"
  /\ "d1" \in DOMAIN running
  /\ Undrained(running["d1"], <<"a", "x">>) = {"m2"}
  /\ \E j \in 1..Len(emitted) :
       emitted[j].ch = "event" /\ emitted[j].kind = "Input"
       /\ emitted[j].to = "b" /\ emitted[j].id = "in1"

====
